---------------------------- MODULE Spec2Model ----------------------------
(***************************************************************************)
(* WuShiK: the turn / trick / round state machine of the Game component    *)
(* (src/unnamed/part_004), the hand classifier and comparator              *)
(* (src/src/lib/gameLogic.ts) and the computer player                      *)
(* (src/unnamed/part_000).                                                 *)
(*                                                                         *)
(* The stored document of a game (GameState) is one record-valued          *)
(* variable.  Every handler is an operator from the snapshot it closes     *)
(* over to the document(s) it writes; the actions apply the handlers to    *)
(* the latest stored document.  Presentation data (names, theme, play log, *)
(* firstPlaceCount, turnStartTime, messages, animations) is left out.      *)
(***************************************************************************)
EXTENDS Integers, Sequences, FiniteSets, TLC

VARIABLES gameState, pc, closure, lastOp, comparison, dealing, clients

vars == <<gameState, pc, closure, lastOp, comparison, dealing, clients>>

(***************************************************************************)
(* Bounds of the model.                                                    *)
(***************************************************************************)
\* number of seats that can be taken (startGame needs at least 3)
MaxPlayers == 4
\* number of cards of the deck that are in play (a prefix of DeckOrder)
DeckSize == 7
\* positions at which the shuffle moves a card
MaxSwaps == 0
\* rounds played before the model stops dealing again
MaxRounds == 2
\* config.targetPoints chosen in the lobby
TargetPoints == 15

(***************************************************************************)
(* Cards.  A card is the integer d*54 + k: deck d, and k = 13*suit + rank  *)
(* for the 52 ranked cards, k = 52 / 53 for the small / big joker.         *)
(***************************************************************************)
RANK_ORDER == <<"3", "4", "5", "6", "7", "8", "9", "10", "J", "Q", "K", "A", "2">>

SUIT_ORDER == <<"clubs", "diamonds", "hearts", "spades">>

CardsPerDeck == 54

IsJoker(c) == (c % CardsPerDeck) >= 52

JokerType(c) == IF (c % CardsPerDeck) = 52 THEN "small" ELSE "big"

\* card.rank: undefined on a joker
RankOf(c) == IF IsJoker(c) THEN "undefined" ELSE RANK_ORDER[((c % CardsPerDeck) % 13) + 1]

\* card.suit: undefined on a joker
SuitOf(c) == IF IsJoker(c) THEN "undefined" ELSE SUIT_ORDER[((c % CardsPerDeck) \div 13) + 1]

IndexOf(seq, x) == IF \E i \in 1..Len(seq) : seq[i] = x
                   THEN (CHOOSE i \in 1..Len(seq) : seq[i] = x) - 1
                   ELSE -1

getCardValue(c) ==
  IF IsJoker(c)
  THEN (IF JokerType(c) = "small" THEN 100 ELSE 101)
  ELSE IndexOf(RANK_ORDER, RankOf(c))

getCardPoints(c) ==
  IF RankOf(c) = "5" THEN 5
  ELSE IF RankOf(c) = "10" THEN 10
  ELSE IF RankOf(c) = "K" THEN 10
  ELSE 0

\* the card id of a ranked card
CardId(d, suit, rank) == d * CardsPerDeck + 13 * IndexOf(SUIT_ORDER, suit) + IndexOf(RANK_ORDER, rank)

\* reduce((sum, c) => sum + getCardPoints(c), 0) over a set of cards
RECURSIVE PointsOfSet(_)
PointsOfSet(S) ==
  IF S = {} THEN 0
  ELSE LET x == CHOOSE y \in S : TRUE
       IN getCardPoints(x) + PointsOfSet(S \ {x})

RECURSIVE PointsOfSeq(_)
PointsOfSeq(s) == IF s = <<>> THEN 0 ELSE getCardPoints(Head(s)) + PointsOfSeq(Tail(s))

SeqToSet(s) == {s[i] : i \in 1..Len(s)}

MaxOf(S) == CHOOSE x \in S : \A y \in S : y <= x

\* [...cards].sort((a, b) => getCardValue(a) - getCardValue(b)); cards of
\* equal value are interchangeable for every test made on the result
RECURSIVE SortByValue(_)
SortByValue(S) ==
  IF S = {} THEN <<>>
  ELSE LET m == CHOOSE x \in S : \A y \in S :
                  \/ getCardValue(x) < getCardValue(y)
                  \/ getCardValue(x) = getCardValue(y) /\ x <= y
       IN <<m>> \o SortByValue(S \ {m})

\* a set of cards as the sequence of its ids in ascending order (the order in
\* which the cards of one play are appended to the pool)
RECURSIVE CardSeq(_)
CardSeq(S) ==
  IF S = {} THEN <<>>
  ELSE LET m == CHOOSE x \in S : \A y \in S : x <= y
       IN <<m>> \o CardSeq(S \ {m})

(***************************************************************************)
(* Hand classifier.                                                        *)
(***************************************************************************)
\* variant: the pairs need not be of consecutive ranks
IsTripleDouble_anyPairs(sorted) ==
  LET n == Len(sorted)
  IN /\ \A j \in 1..(n \div 2) : RankOf(sorted[2 * j - 1]) = RankOf(sorted[2 * j])
     /\ (n \div 2) >= 3

IsTripleDouble(sorted) ==
  LET n == Len(sorted)
      pairs == [j \in 1..(n \div 2) |-> getCardValue(sorted[2 * j - 1])]
  IN /\ \A j \in 1..(n \div 2) : RankOf(sorted[2 * j - 1]) = RankOf(sorted[2 * j])
     /\ \A j \in 2..(n \div 2) : pairs[j] = pairs[j - 1] + 1
     /\ (n \div 2) >= 3

validateHand(cards) ==
  LET n == Cardinality(cards)
      sorted == SortByValue(cards)
  IN IF n = 0 THEN "null"
     ELSE IF n = 1 THEN "single"
     ELSE IF n = 2 /\ RankOf(sorted[1]) = RankOf(sorted[2]) THEN "pair"
     ELSE IF n = 3 /\ RankOf(sorted[1]) = RankOf(sorted[2])
                   /\ RankOf(sorted[2]) = RankOf(sorted[3]) THEN "triple"
     ELSE IF n = 3 /\ (\E c \in cards : RankOf(c) = "5")
                   /\ (\E c \in cards : RankOf(c) = "10")
                   /\ (\E c \in cards : RankOf(c) = "K") THEN "wushik"
     ELSE IF n >= 4 /\ (\A c \in cards : RankOf(c) = RankOf(sorted[1]) /\ ~IsJoker(c))
          THEN "bomb"
     ELSE IF n >= 5 /\ (\A i \in 2..n : /\ ~IsJoker(sorted[i])
                                       /\ getCardValue(sorted[i]) = getCardValue(sorted[i - 1]) + 1)
          THEN "straight"
     ELSE IF n >= 6 /\ n % 2 = 0 /\ IsTripleDouble(sorted) THEN "triple-double"
     ELSE "null"

(***************************************************************************)
(* Hand comparator.  A played hand is [cards, type, playerId].             *)
(***************************************************************************)
isSameSuitWuShiK(cards) == \A c, d \in cards : SuitOf(c) = SuitOf(d)

\* variant: of two mixed-suit wushiks the new one wins
compareWuShiK_mixedBeatsMixed(newCards, currentCards) ==
  LET newSameSuit == isSameSuitWuShiK(newCards)
      currentSameSuit == isSameSuitWuShiK(currentCards)
  IN IF newSameSuit /\ ~currentSameSuit THEN TRUE
     ELSE IF ~newSameSuit /\ currentSameSuit THEN FALSE
     ELSE IF newSameSuit /\ currentSameSuit
          THEN LET newSuit == SuitOf(CHOOSE c \in newCards : TRUE)
                   currentSuit == SuitOf(CHOOSE c \in currentCards : TRUE)
               IN IndexOf(SUIT_ORDER, newSuit) > IndexOf(SUIT_ORDER, currentSuit)
          ELSE TRUE

compareWuShiK(newCards, currentCards) ==
  LET newSameSuit == isSameSuitWuShiK(newCards)
      currentSameSuit == isSameSuitWuShiK(currentCards)
  IN IF newSameSuit /\ ~currentSameSuit THEN TRUE
     ELSE IF ~newSameSuit /\ currentSameSuit THEN FALSE
     ELSE IF newSameSuit /\ currentSameSuit
          THEN LET newSuit == SuitOf(CHOOSE c \in newCards : TRUE)
                   currentSuit == SuitOf(CHOOSE c \in currentCards : TRUE)
               IN IndexOf(SUIT_ORDER, newSuit) > IndexOf(SUIT_ORDER, currentSuit)
          ELSE FALSE

\* variant: the rank is compared before the number of cards
compareBombs_rankFirst(newCards, currentCards) ==
  LET newRank == getCardValue(CHOOSE c \in newCards : TRUE)
      currentRank == getCardValue(CHOOSE c \in currentCards : TRUE)
  IN IF newRank > currentRank THEN TRUE
     ELSE IF newRank < currentRank THEN FALSE
     ELSE Cardinality(newCards) > Cardinality(currentCards)

compareBombs(newCards, currentCards) ==
  IF Cardinality(newCards) > Cardinality(currentCards) THEN TRUE
  ELSE IF Cardinality(newCards) < Cardinality(currentCards) THEN FALSE
  ELSE getCardValue(CHOOSE c \in newCards : TRUE) > getCardValue(CHOOSE c \in currentCards : TRUE)

\* variant: only the bomb is a power combo
IsPower_bombOnly(type) == type = "bomb"

IsPower(type) == type \in {"bomb", "wushik"}

\* variant: a wushik beats a bomb as well
canBeatHand_wushikBeatsBomb(newHand, currentHand) ==
  LET newType == newHand.type
      currentType == currentHand.type
  IN IF IsPower(newType) /\ ~IsPower(currentType) THEN TRUE
     ELSE IF newType = "wushik" /\ currentType = "wushik"
          THEN compareWuShiK(newHand.cards, currentHand.cards)
     ELSE IF newType = "bomb" /\ currentType = "bomb"
          THEN compareBombs(newHand.cards, currentHand.cards)
     ELSE IF newType = "wushik" /\ currentType = "bomb" THEN TRUE
     ELSE IF newType = "bomb" /\ currentType = "wushik" THEN TRUE
     ELSE IF newType # currentType THEN FALSE
     ELSE IF Cardinality(newHand.cards) # Cardinality(currentHand.cards) THEN FALSE
     ELSE MaxOf({getCardValue(c) : c \in newHand.cards})
            > MaxOf({getCardValue(c) : c \in currentHand.cards})

\* variant: a regular hand wins with a highest card that is not lower
canBeatHand_tiesBeat(newHand, currentHand) ==
  LET newType == newHand.type
      currentType == currentHand.type
  IN IF IsPower(newType) /\ ~IsPower(currentType) THEN TRUE
     ELSE IF newType = "wushik" /\ currentType = "wushik"
          THEN compareWuShiK(newHand.cards, currentHand.cards)
     ELSE IF newType = "bomb" /\ currentType = "bomb"
          THEN compareBombs(newHand.cards, currentHand.cards)
     ELSE IF newType = "wushik" /\ currentType = "bomb" THEN FALSE
     ELSE IF newType = "bomb" /\ currentType = "wushik" THEN TRUE
     ELSE IF newType # currentType THEN FALSE
     ELSE IF Cardinality(newHand.cards) # Cardinality(currentHand.cards) THEN FALSE
     ELSE MaxOf({getCardValue(c) : c \in newHand.cards})
            >= MaxOf({getCardValue(c) : c \in currentHand.cards})

\* variant: regular hands of one type are compared whatever their lengths
canBeatHand_anyLength(newHand, currentHand) ==
  LET newType == newHand.type
      currentType == currentHand.type
  IN IF IsPower(newType) /\ ~IsPower(currentType) THEN TRUE
     ELSE IF newType = "wushik" /\ currentType = "wushik"
          THEN compareWuShiK(newHand.cards, currentHand.cards)
     ELSE IF newType = "bomb" /\ currentType = "bomb"
          THEN compareBombs(newHand.cards, currentHand.cards)
     ELSE IF newType = "wushik" /\ currentType = "bomb" THEN FALSE
     ELSE IF newType = "bomb" /\ currentType = "wushik" THEN TRUE
     ELSE IF newType # currentType THEN FALSE
     ELSE MaxOf({getCardValue(c) : c \in newHand.cards})
            > MaxOf({getCardValue(c) : c \in currentHand.cards})

canBeatHand(newHand, currentHand) ==
  LET newType == newHand.type
      currentType == currentHand.type
  IN IF IsPower(newType) /\ ~IsPower(currentType) THEN TRUE
     ELSE IF newType = "wushik" /\ currentType = "wushik"
          THEN compareWuShiK(newHand.cards, currentHand.cards)
     ELSE IF newType = "bomb" /\ currentType = "bomb"
          THEN compareBombs(newHand.cards, currentHand.cards)
     ELSE IF newType = "wushik" /\ currentType = "bomb" THEN FALSE
     ELSE IF newType = "bomb" /\ currentType = "wushik" THEN TRUE
     ELSE IF newType # currentType THEN FALSE
     ELSE IF Cardinality(newHand.cards) # Cardinality(currentHand.cards) THEN FALSE
     ELSE MaxOf({getCardValue(c) : c \in newHand.cards})
            > MaxOf({getCardValue(c) : c \in currentHand.cards})


(***************************************************************************)
(* The stored document.                                                    *)
(***************************************************************************)
\* an id that names no player (undefined winnerId / lastPlayerId / ...)
NoPlayer == 0

\* currentHand: null
NoHand == [cards |-> {}, type |-> "none", playerId |-> NoPlayer]
\* no deck is being dealt
NoDealing == [step |-> "none"]
\* no two hands are being compared
NoComparison == [newHand |-> NoHand, currentHand |-> NoHand, result |-> "none"]

\* closure of a handler that is not running
NoClosure == [gameStatus |-> "none"]
\* no client is followed: no local copy of the document, no timer
NoClients == [view |-> <<>>, aiTimer |-> <<>>, skipTimer |-> <<>>,
              lastMove |-> [base |-> NoClosure, client |-> NoPlayer],
              lastContinue |-> [base |-> NoClosure, by |-> {}, repeated |-> FALSE]]

Difficulties == {"easy", "medium", "hard"}

\* a player as createGame / joinExistingGame / addBot build it; the id of a
\* player is the seat it takes, finishPosition 0 is undefined
NewPlayer(id, ai) ==
  [id |-> id, hand |-> {}, tempPoints |-> 0, totalPoints |-> 0,
   hasFinished |-> FALSE, finishPosition |-> 0, isAI |-> ai]

Seats(gs) == 1..Len(gs.players)

\* players.find(p => p.id === id); the ids are the seats
HasPlayer(gs, id) == id \in Seats(gs)

(***************************************************************************)
(* Deck and deal.  Of the 54 cards of a deck only the first DeckSize cards *)
(* of DeckOrder are in play; createDeck lists them in the order in which   *)
(* the loops of createDeck push them (deck, suit, rank, then the jokers),  *)
(* which is the order of the card ids.                                     *)
(***************************************************************************)
DeckOrder ==
  << CardId(0, "spades", "3"),   CardId(0, "clubs", "3"),
     CardId(0, "clubs", "4"),    CardId(0, "diamonds", "5"),
     CardId(0, "diamonds", "K"), CardId(0, "hearts", "10"),
     CardId(0, "spades", "K"),   CardId(0, "hearts", "5"),
     53,                         52,
     CardId(0, "hearts", "4"),   CardId(0, "clubs", "10") >>

CardsInPlay(numDecks) ==
  {d * CardsPerDeck + DeckOrder[i] : d \in 0..(numDecks - 1), i \in 1..DeckSize}

\* the deck before it is shuffled
createDeck(numDecks) == CardSeq(CardsInPlay(numDecks))

\* Math.ceil(numPlayers / 4)
NumDecks(numPlayers) == (numPlayers + 3) \div 4

\* the draws j = Math.floor(Math.random() * (i + 1)) of shuffleDeck for
\* i = n-1 .. 1, of which at most MaxSwaps move a card (j # i)
RandomDraws(n) ==
  UNION { { [i \in 1..(n - 1) |-> IF i \in I THEN f[i] ELSE i] :
              f \in {g \in [I -> 0..(n - 2)] : \A i \in I : g[i] < i} } :
          I \in {J \in SUBSET (1..(n - 1)) : Cardinality(J) <= MaxSwaps} }

\* the deck after the swaps for i = k .. 1 (positions count from 0)
RECURSIVE SwapsFrom(_, _, _)
SwapsFrom(deck, draws, k) ==
  IF k < 1 THEN deck
  ELSE LET i == k + 1
           j == draws[k] + 1
           swapped == [deck EXCEPT ![i] = deck[j], ![j] = deck[i]]
       IN SwapsFrom(swapped, draws, k - 1)

shuffleDeck(deck, draws) == SwapsFrom(deck, draws, Len(deck) - 1)

\* variant: every hand gets Math.floor(deck.length / numPlayers) cards
dealCards_equalHands(deck, numPlayers) ==
  [j \in 1..numPlayers |->
     {deck[idx + 1] : idx \in {k \in 0..(numPlayers * (Len(deck) \div numPlayers) - 1) :
                                 k % numPlayers = j - 1}}]

\* the hands as sets: card idx goes to hand idx % numPlayers
dealCards(deck, numPlayers) ==
  [j \in 1..numPlayers |-> {deck[idx + 1] : idx \in {k \in 0..(Len(deck) - 1) : k % numPlayers = j - 1}}]

\* every deal the bounded shuffle can produce
Deals(numPlayers) ==
  LET deck == createDeck(NumDecks(numPlayers))
  IN {dealCards(shuffleDeck(deck, draws), numPlayers) : draws \in RandomDraws(Len(deck))}

\* variant: the last hand holding a 3 of spades
findThreeOfSpades_lastHolder(hands) ==
  LET has(i) == \E c \in hands[i] : ~IsJoker(c) /\ RankOf(c) = "3" /\ SuitOf(c) = "spades"
  IN IF \E i \in DOMAIN hands : has(i)
     THEN (CHOOSE i \in DOMAIN hands : has(i) /\ \A k \in DOMAIN hands : has(k) => k <= i) - 1
     ELSE 0

\* index (from 0) of the first hand holding a 3 of spades, 0 if there is none
findThreeOfSpades(hands) ==
  LET has(i) == \E c \in hands[i] : ~IsJoker(c) /\ RankOf(c) = "3" /\ SuitOf(c) = "spades"
  IN IF \E i \in DOMAIN hands : has(i)
     THEN (CHOOSE i \in DOMAIN hands : has(i) /\ \A k \in DOMAIN hands : has(k) => i <= k) - 1
     ELSE 0

(***************************************************************************)
(* Lobby: createGame, joinExistingGame, addBot, startGame.                 *)
(***************************************************************************)
createGame(numAI, difficulty) ==
  [players |-> [i \in 1..(numAI + 1) |-> NewPlayer(i, i > 1)],
   currentPlayerId |-> 1,
   currentHand |-> NoHand,
   playedCards |-> <<>>,
   passedPlayerIds |-> <<>>,
   roundNumber |-> 1,
   targetPoints |-> TargetPoints,
   gameStatus |-> "waiting",
   winnerId |-> NoPlayer,
   firstPlayerId |-> NoPlayer,
   lastPlayerId |-> NoPlayer,
   aiDifficulty |-> difficulty]

joinExistingGame(gs) ==
  [gs EXCEPT !.players = Append(gs.players, NewPlayer(Len(gs.players) + 1, FALSE))]

addBot(gs) ==
  [gs EXCEPT !.players = Append(gs.players, NewPlayer(Len(gs.players) + 1, TRUE))]

\* the players with the freshly dealt hands
DealTo(gs, hands) == [i \in Seats(gs) |-> [gs.players[i] EXCEPT !.hand = hands[i]]]

startGame(gs, hands) ==
  IF Len(gs.players) < 3 THEN gs
  ELSE LET firstPlayerIdx == findThreeOfSpades(hands)
           updatedPlayers == DealTo(gs, hands)
       IN [gs EXCEPT !.players = updatedPlayers,
                     !.currentPlayerId = updatedPlayers[firstPlayerIdx + 1].id,
                     !.gameStatus = "playing",
                     !.firstPlayerId = updatedPlayers[firstPlayerIdx + 1].id]

\* a variant of startNextRound that leaves the round number as it is
startNextRound_sameRound(gs, hands) ==
  LET firstPlayerIdx == findThreeOfSpades(hands)
      updatedPlayers == DealTo(gs, hands)
  IN [gs EXCEPT !.players = updatedPlayers,
                !.currentPlayerId = updatedPlayers[firstPlayerIdx + 1].id,
                !.currentHand = NoHand,
                !.playedCards = <<>>,
                !.passedPlayerIds = <<>>,
                !.gameStatus = "playing"]

startNextRound(gs, hands) ==
  LET firstPlayerIdx == findThreeOfSpades(hands)
      updatedPlayers == DealTo(gs, hands)
  IN [gs EXCEPT !.players = updatedPlayers,
                !.currentPlayerId = updatedPlayers[firstPlayerIdx + 1].id,
                !.currentHand = NoHand,
                !.playedCards = <<>>,
                !.passedPlayerIds = <<>>,
                !.roundNumber = gs.roundNumber + 1,
                !.gameStatus = "playing"]


(***************************************************************************)
(* Turn order.                                                             *)
(***************************************************************************)
NotFinished(p) == ~p.hasFinished

\* gameState.players.filter(p => !p.hasFinished)
ActivePlayers(gs) == SelectSeq(gs.players, NotFinished)

\* activePlayers.findIndex(p => p.id === id), -1 if there is none
FindIndexById(players, id) ==
  IF \E i \in 1..Len(players) : players[i].id = id
  THEN (CHOOSE i \in 1..Len(players) : players[i].id = id) - 1
  ELSE -1

\* with no active player the index is NaN and reading .id of undefined throws
getNextPlayerIdThrows(gs) == Len(ActivePlayers(gs)) = 0

\* a variant of getNextPlayerId that leaves the turn where it is
getNextPlayerId_sameSeat(gs) == gs.currentPlayerId

getNextPlayerId(gs) ==
  LET activePlayers == ActivePlayers(gs)
      currentIdx == FindIndexById(activePlayers, gs.currentPlayerId)
      nextIdx == (currentIdx + 1) % Len(activePlayers)
  IN activePlayers[nextIdx + 1].id

(***************************************************************************)
(* Playing a hand.  A handler yields the sequence of documents it writes   *)
(* with updateGameState, in order; <<>> when it returns (or throws) before *)
(* any write.                                                              *)
(***************************************************************************)
Last(w) == w[Len(w)]

FinishedCount(gs) == Cardinality({i \in Seats(gs) : gs.players[i].hasFinished})

\* a variant of PlayersAfterPlay that numbers the finish from the count of
\* finished players without adding one
PlayersAfterPlay_countFromZero(gs, playerId, cards) ==
  [i \in Seats(gs) |->
     IF gs.players[i].id = playerId
     THEN LET newHand == gs.players[i].hand \ cards
              hasFinished == newHand = {}
              finishPosition == IF hasFinished THEN FinishedCount(gs) ELSE 0
          IN [gs.players[i] EXCEPT !.hand = newHand,
                                   !.hasFinished = hasFinished,
                                   !.finishPosition = finishPosition]
     ELSE gs.players[i]]

\* a variant of PlayersAfterPlay that leaves the played cards in the hand
PlayersAfterPlay_cardsStay(gs, playerId, cards) ==
  [i \in Seats(gs) |->
     IF gs.players[i].id = playerId
     THEN LET hasFinished == gs.players[i].hand \ cards = {}
              finishPosition == IF hasFinished THEN FinishedCount(gs) + 1 ELSE 0
          IN [gs.players[i] EXCEPT !.hasFinished = hasFinished,
                                   !.finishPosition = finishPosition]
     ELSE gs.players[i]]

\* the players.map of playHand / playHandForAI
PlayersAfterPlay(gs, playerId, cards) ==
  [i \in Seats(gs) |->
     IF gs.players[i].id = playerId
     THEN LET newHand == gs.players[i].hand \ cards
              hasFinished == newHand = {}
              finishPosition == IF hasFinished THEN FinishedCount(gs) + 1 ELSE 0
          IN [gs.players[i] EXCEPT !.hand = newHand,
                                   !.hasFinished = hasFinished,
                                   !.finishPosition = finishPosition]
     ELSE gs.players[i]]

\* the document of the first write of playHand / playHandForAI
PlayedState(gs, playerId, cards, handType) ==
  [gs EXCEPT !.players = PlayersAfterPlay(gs, playerId, cards),
             !.currentHand = [cards |-> cards, type |-> handType, playerId |-> playerId],
             !.playedCards = gs.playedCards \o CardSeq(cards),
             !.passedPlayerIds = <<>>,
             !.currentPlayerId = getNextPlayerId(gs)]

PlayersWithCards(players) == {i \in DOMAIN players : players[i].hand # {}}

\* the documents endRound writes for the closed-over gs: none when a first or
\* a second place is missing, else the reveal document built on gs
endRound(gs, players, lastPlayerId) ==
  IF \/ ~\E i \in DOMAIN players : players[i].finishPosition = 1
     \/ ~\E i \in DOMAIN players : players[i].finishPosition = 2
  THEN <<>>
  ELSE << [gs EXCEPT !.players = players,
                     !.gameStatus = "round-reveal",
                     !.lastPlayerId = lastPlayerId] >>

\* a variant of checkRoundEnd that ends the round only when nobody holds cards
checkRoundEnd_nobodyHoldsCards(gs, players) ==
  IF PlayersWithCards(players) = {}
  THEN endRound(gs, players, NoPlayer)
  ELSE <<>>

\* variant: the player of the last seat is recorded as the last player
checkRoundEnd_lastSeat(gs, players) ==
  IF Cardinality(PlayersWithCards(players)) = 1
  THEN endRound(gs, players, players[Len(players)].id)
  ELSE <<>>

checkRoundEnd(gs, players) ==
  LET playersWithCards == PlayersWithCards(players)
  IN IF Cardinality(playersWithCards) = 1
     THEN endRound(gs, players, players[CHOOSE i \in playersWithCards : TRUE].id)
     ELSE <<>>

playHand(gs, playerId, cards, handType) ==
  IF getNextPlayerIdThrows(gs) THEN <<>>
  ELSE LET updatedState == PlayedState(gs, playerId, cards, handType)
       IN <<updatedState>> \o checkRoundEnd(gs, updatedState.players)

\* a variant of handlePlay without the isMyTurn check
handlePlay_anyTurn(gs, playerId, selectedCards) ==
  IF ~HasPlayer(gs, playerId) THEN <<>>
  ELSE LET hand == gs.players[playerId].hand
           handType == validateHand(selectedCards)
           newHand == [cards |-> selectedCards, type |-> handType, playerId |-> playerId]
       IN IF selectedCards \ hand # {} THEN <<>>
          ELSE IF handType = "null" THEN <<>>
          ELSE IF gs.currentHand # NoHand /\ ~canBeatHand(newHand, gs.currentHand) THEN <<>>
          ELSE playHand(gs, playerId, selectedCards, handType)

\* handlePlay for the client of playerId with selectedCards.  A selected id
\* that is not in the hand resolves to undefined: validateHand then throws or
\* finds no kind, except for a single undefined card, which passes as 'single'
\* and then fails in canBeatHand (false or TypeError) or throws in the hand
\* filter of playHand; in each case nothing is written.  (A player with an
\* empty hand has an empty selection.)
handlePlay(gs, playerId, selectedCards) ==
  IF gs.currentPlayerId # playerId THEN <<>>
  ELSE IF ~HasPlayer(gs, playerId) THEN <<>>
  ELSE LET hand == gs.players[playerId].hand
           handType == validateHand(selectedCards)
           newHand == [cards |-> selectedCards, type |-> handType, playerId |-> playerId]
       IN IF selectedCards \ hand # {} THEN <<>>
          ELSE IF handType = "null" THEN <<>>
          ELSE IF gs.currentHand # NoHand /\ ~canBeatHand(newHand, gs.currentHand) THEN <<>>
          ELSE playHand(gs, playerId, selectedCards, handType)

\* handlePlayAreaDrop for the client of playerId with the dragged ids: ids
\* that are not in the hand are filtered out before the hand is validated
handlePlayAreaDrop(gs, playerId, draggedCardIds) ==
  IF gs.currentPlayerId # playerId THEN <<>>
  ELSE IF ~HasPlayer(gs, playerId) THEN <<>>
  ELSE LET cards == draggedCardIds \cap gs.players[playerId].hand
           handType == validateHand(cards)
           newHand == [cards |-> cards, type |-> handType, playerId |-> playerId]
       IN IF handType = "null" THEN <<>>
          ELSE IF gs.currentHand # NoHand /\ ~canBeatHand(newHand, gs.currentHand) THEN <<>>
          ELSE playHand(gs, playerId, cards, handType)

(***************************************************************************)
(* Passing and collecting the trick.                                       *)
(***************************************************************************)
\* a variant of collectCards that counts only the cards of the winning hand
collectCards_winningHandOnly(gs) ==
  IF gs.currentHand = NoHand THEN <<>>
  ELSE LET winnerId == gs.currentHand.playerId
           points == PointsOfSet(gs.currentHand.cards)
           newPlayers == [i \in Seats(gs) |->
                            IF gs.players[i].id = winnerId
                            THEN [gs.players[i] EXCEPT !.tempPoints = gs.players[i].tempPoints + points]
                            ELSE gs.players[i]]
       IN << [gs EXCEPT !.players = newPlayers,
                        !.currentHand = NoHand,
                        !.playedCards = <<>>,
                        !.passedPlayerIds = <<>>,
                        !.currentPlayerId = winnerId] >>

\* the document collectCards writes (after its animation timers)
collectCards(gs) ==
  IF gs.currentHand = NoHand THEN <<>>
  ELSE LET winnerId == gs.currentHand.playerId
           points == PointsOfSeq(gs.playedCards)
           newPlayers == [i \in Seats(gs) |->
                            IF gs.players[i].id = winnerId
                            THEN [gs.players[i] EXCEPT !.tempPoints = gs.players[i].tempPoints + points]
                            ELSE gs.players[i]]
       IN << [gs EXCEPT !.players = newPlayers,
                        !.currentHand = NoHand,
                        !.playedCards = <<>>,
                        !.passedPlayerIds = <<>>,
                        !.currentPlayerId = winnerId] >>

\* activePlayers.filter(p => p.id !== currentHand?.playerId).length === newPassedIds.length
allOthersPassedOrFinished(gs, newPassedIds) ==
  LET activePlayers == ActivePlayers(gs)
  IN Cardinality({i \in 1..Len(activePlayers) : activePlayers[i].id # gs.currentHand.playerId})
       = Len(newPassedIds)

\* the body shared by handlePass and handlePassForAI
PassBy(gs, playerId) ==
  LET newPassedIds == Append(gs.passedPlayerIds, playerId)
  IN IF allOthersPassedOrFinished(gs, newPassedIds)
     THEN collectCards(gs)
     ELSE IF getNextPlayerIdThrows(gs) THEN <<>>
     ELSE << [gs EXCEPT !.passedPlayerIds = newPassedIds,
                        !.currentPlayerId = getNextPlayerId(gs)] >>

handlePass(gs, playerId) ==
  IF gs.currentPlayerId # playerId THEN <<>>
  ELSE PassBy(gs, playerId)

\* a variant of the Pass button that is disabled only out of turn
PassButtonDisabled_turnOnly(gs, playerId) ==
  gs.currentPlayerId # playerId

\* the Pass button: disabled={!isMyTurnNow || !gameState.currentHand}
PassButtonDisabled(gs, playerId) ==
  gs.currentPlayerId # playerId \/ gs.currentHand = NoHand

\* a click on the Pass button by the client of playerId
clickPass(gs, playerId) ==
  IF PassButtonDisabled(gs, playerId) THEN <<>> ELSE handlePass(gs, playerId)


(***************************************************************************)
(* The computer player.                                                    *)
(***************************************************************************)
\* the order of String.localeCompare on the rank strings
RankLocaleOrder == <<"10", "2", "3", "4", "5", "6", "7", "8", "9", "A", "J", "K", "Q">>

\* position of a card in a dealt hand: startGame sorts a hand by suit, then
\* by rank string, jokers last; playing filters the hand and keeps the order
DealKey(c) ==
  IF IsJoker(c) THEN 1000000 + c
  ELSE 100000 * IndexOf(SUIT_ORDER, SuitOf(c)) + 1000 * IndexOf(RankLocaleOrder, RankOf(c)) + c

\* player.hand as the array it is
RECURSIVE HandSeq(_)
HandSeq(S) ==
  IF S = {} THEN <<>>
  ELSE LET m == CHOOSE x \in S : \A y \in S : DealKey(x) <= DealKey(y)
       IN <<m>> \o HandSeq(S \ {m})

\* [...player.hand].sort by getCardValue: stable, so ties keep the hand order
ValueKey(c) == 10000000 * getCardValue(c) + DealKey(c)

RECURSIVE SortedCards(_)
SortedCards(S) ==
  IF S = {} THEN <<>>
  ELSE LET m == CHOOSE x \in S : \A y \in S : ValueKey(x) <= ValueKey(y)
       IN <<m>> \o SortedCards(S \ {m})

\* the first k cards of a set in hand order
FirstK(S, k) == LET h == HandSeq(S) IN {h[i] : i \in 1..k}

CardsOfRank(hand, r) == {c \in hand : ~IsJoker(c) /\ RankOf(c) = r}

\* the ranks of a sequence of rank names that have at least k cards in hand
RECURSIVE GroupsFrom(_, _, _)
GroupsFrom(hand, ranks, k) ==
  IF ranks = <<>> THEN <<>>
  ELSE LET g == CardsOfRank(hand, Head(ranks))
       IN (IF Cardinality(g) >= k THEN <<FirstK(g, k)>> ELSE <<>>)
            \o GroupsFrom(hand, Tail(ranks), k)

\* one pair per rank with 2 or more cards, ascending by rank value
findPairs(hand) == GroupsFrom(hand, RANK_ORDER, 2)

findTriples(hand) == GroupsFrom(hand, RANK_ORDER, 3)

findHandsOfType(hand, type) ==
  IF type = "single" THEN [i \in 1..Cardinality(hand) |-> {HandSeq(hand)[i]}]
  ELSE IF type = "pair" THEN findPairs(hand)
  ELSE IF type = "triple" THEN findTriples(hand)
  ELSE <<>>

\* the ranks of the hand in the order in which the hand first shows them
RECURSIVE RanksInHandOrder(_)
RanksInHandOrder(h) ==
  IF h = <<>> THEN <<>>
  ELSE LET rest == RanksInHandOrder(Tail(h))
           r == RankOf(Head(h))
       IN IF IsJoker(Head(h)) THEN rest
          ELSE <<r>> \o SelectSeq(rest, LAMBDA x : x # r)

RECURSIVE BombsFrom(_, _)
BombsFrom(hand, ranks) ==
  IF ranks = <<>> THEN <<>>
  ELSE LET g == CardsOfRank(hand, Head(ranks))
       IN (IF Cardinality(g) >= 4 THEN <<g>> ELSE <<>>) \o BombsFrom(hand, Tail(ranks))

findPowerCombos(hand) ==
  LET fives == CardsOfRank(hand, "5")
      tens == CardsOfRank(hand, "10")
      kings == CardsOfRank(hand, "K")
  IN BombsFrom(hand, RanksInHandOrder(HandSeq(hand)))
       \o (IF fives # {} /\ tens # {} /\ kings # {}
           THEN << FirstK(fives, 1) \cup FirstK(tens, 1) \cup FirstK(kings, 1) >>
           ELSE <<>>)

\* variant: the first hand of the kind on the table is chosen, beating or not
findBeatingHand_firstOfKind(player, currentHand, difficulty) ==
  LET possiblePlays == findHandsOfType(player.hand, currentHand.type)
  IN IF Len(possiblePlays) = 0 THEN {} ELSE possiblePlays[1]

\* the chosen cards, {} for null
findBeatingHand(player, currentHand, difficulty) ==
  LET handType == currentHand.type
      possiblePlays == findHandsOfType(player.hand, handType)
      beats(cards) == canBeatHand([cards |-> cards, type |-> handType, playerId |-> player.id],
                                  currentHand)
      beatingPlays == SelectSeq(possiblePlays, beats)
      powerPlays == findPowerCombos(player.hand)
      powerBeats(cards) ==
        /\ validateHand(cards) \in {"bomb", "wushik"}
        /\ canBeatHand([cards |-> cards, type |-> validateHand(cards), playerId |-> player.id],
                       currentHand)
      beatingPower == SelectSeq(powerPlays, powerBeats)
  IN IF Len(beatingPlays) = 0
     THEN (IF Len(beatingPower) = 0 THEN {} ELSE beatingPower[1])
     ELSE IF difficulty = "easy" THEN beatingPlays[Len(beatingPlays)]
     ELSE IF difficulty = "medium" THEN beatingPlays[(Len(beatingPlays) \div 2) + 1]
     ELSE beatingPlays[1]

\* the values shouldAIPlay can return (Math.random() decides between two)
shouldAIPlay(player, currentHand, beatingHand, difficulty) ==
  IF difficulty = "easy" THEN {TRUE}
  ELSE IF difficulty = "medium" THEN {TRUE, FALSE}
  ELSE LET hasHighCards == \E c \in beatingHand : getCardValue(c) > 10
           trickIsValuable == Cardinality(currentHand.cards) > 3
       IN IF hasHighCards /\ ~trickIsValuable /\ Cardinality(player.hand) > 5
          THEN {TRUE, FALSE}
          ELSE {TRUE}

\* variant: at hard a pair is looked for before a triple
playStartingHand_pairFirst(player, difficulty) ==
  LET sortedCards == SortedCards(player.hand)
      pairs == findPairs(player.hand)
      triples == findTriples(player.hand)
      lowest == [action |-> "play", cards |-> {sortedCards[1]}]
  IN IF difficulty = "easy" THEN lowest
     ELSE IF Len(pairs) > 0 THEN [action |-> "play", cards |-> pairs[1]]
     ELSE IF difficulty = "hard" /\ Len(triples) > 0
          THEN [action |-> "play", cards |-> triples[1]]
     ELSE lowest

\* for a player with a non-empty hand
playStartingHand(player, difficulty) ==
  LET sortedCards == SortedCards(player.hand)
      pairs == findPairs(player.hand)
      triples == findTriples(player.hand)
      lowest == [action |-> "play", cards |-> {sortedCards[1]}]
  IN IF difficulty = "easy" THEN lowest
     ELSE IF difficulty = "medium"
          THEN (IF Len(pairs) > 0 THEN [action |-> "play", cards |-> pairs[1]] ELSE lowest)
     ELSE IF Len(triples) > 0 THEN [action |-> "play", cards |-> triples[1]]
     ELSE IF Len(pairs) > 0 THEN [action |-> "play", cards |-> pairs[1]]
     ELSE lowest

AIPass == [action |-> "pass", cards |-> {}]

\* the decisions makeAIMove can return
makeAIMove(player, currentHand, difficulty) ==
  IF currentHand = NoHand THEN {playStartingHand(player, difficulty)}
  ELSE LET beatingHand == findBeatingHand(player, currentHand, difficulty)
       IN IF beatingHand = {} THEN {AIPass}
          ELSE {IF shouldPlay THEN [action |-> "play", cards |-> beatingHand] ELSE AIPass :
                  shouldPlay \in shouldAIPlay(player, currentHand, beatingHand, difficulty)}

playHandForAI(gs, aiPlayerId, cards, handType) ==
  IF ~HasPlayer(gs, aiPlayerId) THEN <<>>
  ELSE IF getNextPlayerIdThrows(gs) THEN <<>>
  ELSE LET updatedState == PlayedState(gs, aiPlayerId, cards, handType)
       IN <<updatedState>> \o checkRoundEnd(gs, updatedState.players)

handlePassForAI(gs, aiPlayerId) ==
  IF ~HasPlayer(gs, aiPlayerId) THEN <<>>
  ELSE PassBy(gs, aiPlayerId)

\* the turn effect applies to an unfinished computer player whose turn it is
AITurnEnabled(gs) ==
  /\ gs.gameStatus = "playing"
  /\ HasPlayer(gs, gs.currentPlayerId)
  /\ gs.players[gs.currentPlayerId].isAI
  /\ ~gs.players[gs.currentPlayerId].hasFinished

\* what the timer of the turn effect writes for one decision
aiTurn(gs, aiDecision) ==
  LET currentPlayer == gs.players[gs.currentPlayerId]
  IN IF aiDecision.action = "play"
     THEN (IF validateHand(aiDecision.cards) # "null"
           THEN playHandForAI(gs, currentPlayer.id, aiDecision.cards, validateHand(aiDecision.cards))
           ELSE <<>>)
     ELSE handlePassForAI(gs, currentPlayer.id)

\* the skip effect applies when the player to act has finished
AutoSkipEnabled(gs) ==
  /\ gs.gameStatus = "playing"
  /\ HasPlayer(gs, gs.currentPlayerId)
  /\ gs.players[gs.currentPlayerId].hasFinished

autoSkip(gs) ==
  IF getNextPlayerIdThrows(gs) THEN <<>>
  ELSE << [gs EXCEPT !.currentPlayerId = getNextPlayerId(gs)] >>

(***************************************************************************)
(* Round end.                                                              *)
(***************************************************************************)
\* a variant of pointsToAdd that hands the last player's hand points to the
\* first place as well
pointsToAdd_firstTakesAll(p, firstPlace, secondPlace, lastPlayer, lastPlayerHandPoints) ==
  IF p.id = lastPlayer.id THEN 0
  ELSE p.tempPoints
       + (IF p.id = firstPlace.id THEN lastPlayer.tempPoints + lastPlayerHandPoints ELSE 0)

\* a variant of pointsToAdd in which the last player keeps the own tempPoints
pointsToAdd_lastKeepsOwn(p, firstPlace, secondPlace, lastPlayer, lastPlayerHandPoints) ==
  p.tempPoints
  + (IF p.id = firstPlace.id THEN lastPlayer.tempPoints ELSE 0)
  + (IF p.id = secondPlace.id THEN lastPlayerHandPoints ELSE 0)

\* the pointsToAdd of the players.map of continueFromReveal
pointsToAdd(p, firstPlace, secondPlace, lastPlayer, lastPlayerHandPoints) ==
  IF p.id = lastPlayer.id THEN 0
  ELSE p.tempPoints
       + (IF p.id = firstPlace.id THEN lastPlayer.tempPoints ELSE 0)
       + (IF p.id = secondPlace.id THEN lastPlayerHandPoints ELSE 0)

\* a variant of findWinner that asks for more than the target
findWinner_aboveTarget(updatedPlayers, targetPoints) ==
  LET reached == {i \in DOMAIN updatedPlayers : updatedPlayers[i].totalPoints > targetPoints}
  IN IF reached = {} THEN 0 ELSE CHOOSE i \in reached : \A k \in reached : i <= k

\* updatedPlayers.find(p => p.totalPoints >= gameState.targetPoints): the seat
\* of the first such player, 0 when find gives undefined
findWinner(updatedPlayers, targetPoints) ==
  LET reached == {i \in DOMAIN updatedPlayers : updatedPlayers[i].totalPoints >= targetPoints}
  IN IF reached = {} THEN 0 ELSE CHOOSE i \in reached : \A k \in reached : i <= k

\* a variant of continueFromReveal that adds the points and leaves the reveal
\* as it is: status, round points and finishing places stay
continueFromReveal_keepsReveal(gs) ==
  IF gs.gameStatus # "round-reveal" THEN <<>>
  ELSE IF \/ ~HasPlayer(gs, gs.lastPlayerId)
          \/ ~\E i \in Seats(gs) : gs.players[i].finishPosition = 1
          \/ ~\E i \in Seats(gs) : gs.players[i].finishPosition = 2
  THEN <<>>
  ELSE LET players == gs.players
           lastPlayer == players[gs.lastPlayerId]
           firstPlace == players[CHOOSE i \in Seats(gs) :
                                   /\ players[i].finishPosition = 1
                                   /\ \A k \in Seats(gs) : players[k].finishPosition = 1 => i <= k]
           secondPlace == players[CHOOSE i \in Seats(gs) :
                                    /\ players[i].finishPosition = 2
                                    /\ \A k \in Seats(gs) : players[k].finishPosition = 2 => i <= k]
           lastPlayerHandPoints == PointsOfSet(lastPlayer.hand)
           updatedPlayers == [i \in Seats(gs) |->
                                [players[i] EXCEPT !.totalPoints = players[i].totalPoints
                                                     + pointsToAdd(players[i], firstPlace, secondPlace,
                                                                   lastPlayer, lastPlayerHandPoints)]]
       IN << [gs EXCEPT !.players = updatedPlayers] >>

continueFromReveal(gs) ==
  IF gs.gameStatus # "round-reveal" THEN <<>>
  ELSE IF \/ ~HasPlayer(gs, gs.lastPlayerId)
          \/ ~\E i \in Seats(gs) : gs.players[i].finishPosition = 1
          \/ ~\E i \in Seats(gs) : gs.players[i].finishPosition = 2
  THEN <<>>
  ELSE LET players == gs.players
           lastPlayer == players[gs.lastPlayerId]
           firstPlace == players[CHOOSE i \in Seats(gs) :
                                   /\ players[i].finishPosition = 1
                                   /\ \A k \in Seats(gs) : players[k].finishPosition = 1 => i <= k]
           secondPlace == players[CHOOSE i \in Seats(gs) :
                                    /\ players[i].finishPosition = 2
                                    /\ \A k \in Seats(gs) : players[k].finishPosition = 2 => i <= k]
           lastPlayerHandPoints == PointsOfSet(lastPlayer.hand)
           updatedPlayers == [i \in Seats(gs) |->
                                [players[i] EXCEPT !.totalPoints = players[i].totalPoints
                                                     + pointsToAdd(players[i], firstPlace, secondPlace,
                                                                   lastPlayer, lastPlayerHandPoints),
                                                   !.tempPoints = 0,
                                                   !.hasFinished = FALSE,
                                                   !.finishPosition = 0]]
           winnerIdx == findWinner(updatedPlayers, gs.targetPoints)
           winner == updatedPlayers[winnerIdx]
       IN IF winnerIdx # 0
          THEN << [gs EXCEPT !.players = updatedPlayers,
                             !.gameStatus = "game-end",
                             !.winnerId = winner.id] >>
          ELSE << [gs EXCEPT !.players = updatedPlayers,
                             !.gameStatus = "round-end"] >>


(***************************************************************************)
(* The state machine.  gameState is the stored document; pc and closure    *)
(* hold a play handler between its two writes (closure is the document the *)
(* handler was started on); lastOp names the last handler that wrote and   *)
(* the player it acted for.                                                *)
(***************************************************************************)
Init ==
  \E numAI \in 0..(MaxPlayers - 1), difficulty \in Difficulties :
    /\ gameState = createGame(numAI, difficulty)
    /\ pc = "idle"
    /\ closure = NoClosure
    /\ lastOp = [op |-> "createGame", by |-> 1]
    /\ comparison = NoComparison
    /\ dealing = NoDealing
    /\ clients = NoClients

\* a handler started on the stored document makes its first write; a second
\* write (the reveal document of endRound) is left pending
Run(writes, op, by) ==
  /\ pc = "idle"
  /\ Len(writes) > 0
  /\ gameState' = writes[1]
  /\ lastOp' = [op |-> op, by |-> by]
  /\ IF Len(writes) > 1
     THEN pc' = "endRound" /\ closure' = gameState
     ELSE pc' = "idle" /\ closure' = NoClosure
  /\ UNCHANGED <<comparison, dealing, clients>>

\* the second write of playHand / playHandForAI: endRound on the closed-over
\* document with the players of the play
EndRound ==
  /\ pc = "endRound"
  /\ gameState' = Last(checkRoundEnd(closure, gameState.players))
  /\ pc' = "idle"
  /\ closure' = NoClosure
  /\ lastOp' = [op |-> "endRound", by |-> lastOp.by]
  /\ UNCHANGED <<comparison, dealing, clients>>

\* the handler that writes for a pass: collectCards when the pass ends the trick
PassOp(gs, playerId, handler) ==
  IF allOthersPassedOrFinished(gs, Append(gs.passedPlayerIds, playerId))
  THEN "collectCards" ELSE handler

Humans(gs) == {i \in Seats(gs) : ~gs.players[i].isAI}

\* an id that is not in the hand of playerId (left selected from an earlier
\* deal); the handlers only look the id up in the hand, so the lowest such id
\* stands for all of them
StaleIds(gs, playerId) ==
  LET others == CardsInPlay(NumDecks(Len(gs.players))) \ gs.players[playerId].hand
  IN {c \in others : \A d \in others : c <= d}

\* what a client can have selected or dragged: cards of its hand and possibly
\* an id that is not in its hand; nothing when it holds no card
Selections(gs, playerId) ==
  LET hand == gs.players[playerId].hand
  IN IF hand = {} THEN {{}}
     ELSE {own \cup stale : own \in SUBSET hand,
                            stale \in {{}} \cup {{c} : c \in StaleIds(gs, playerId)}}

JoinExistingGame ==
  /\ Len(gameState.players) < MaxPlayers
  /\ Run(<<joinExistingGame(gameState)>>, "joinExistingGame", Len(gameState.players) + 1)

AddBot ==
  /\ gameState.gameStatus = "waiting"
  /\ Len(gameState.players) < MaxPlayers
  /\ Run(<<addBot(gameState)>>, "addBot", Len(gameState.players) + 1)

StartGame ==
  /\ gameState.gameStatus = "waiting"
  /\ Len(gameState.players) >= 3
  /\ \E hands \in Deals(Len(gameState.players)) :
       Run(<<startGame(gameState, hands)>>, "startGame", 1)

HandlePlay ==
  /\ gameState.gameStatus = "playing"
  /\ \E playerId \in Humans(gameState) :
       \E selectedCards \in Selections(gameState, playerId) :
         Run(handlePlay(gameState, playerId, selectedCards), "playHand", playerId)

HandlePlayAreaDrop ==
  /\ gameState.gameStatus = "playing"
  /\ \E playerId \in Humans(gameState) :
       \E draggedCardIds \in Selections(gameState, playerId) :
         /\ draggedCardIds \cap gameState.players[playerId].hand # {}
         /\ Run(handlePlayAreaDrop(gameState, playerId, draggedCardIds), "playHand", playerId)

HandlePass ==
  /\ gameState.gameStatus = "playing"
  /\ \E playerId \in Humans(gameState) :
       Run(clickPass(gameState, playerId), PassOp(gameState, playerId, "handlePass"), playerId)

AITurn ==
  /\ AITurnEnabled(gameState)
  /\ \E aiDecision \in makeAIMove(gameState.players[gameState.currentPlayerId],
                                  gameState.currentHand, gameState.aiDifficulty) :
       Run(aiTurn(gameState, aiDecision),
           IF aiDecision.action = "play" THEN "playHandForAI"
           ELSE PassOp(gameState, gameState.currentPlayerId, "handlePassForAI"),
           gameState.currentPlayerId)

AutoSkip ==
  /\ AutoSkipEnabled(gameState)
  /\ Run(autoSkip(gameState), "autoSkip", gameState.currentPlayerId)

ContinueFromReveal ==
  /\ gameState.gameStatus = "round-reveal"
  /\ Run(continueFromReveal(gameState), "continueFromReveal", 1)

StartNextRound ==
  /\ gameState.gameStatus = "round-end"
  /\ gameState.roundNumber < MaxRounds
  /\ \E hands \in Deals(Len(gameState.players)) :
       Run(<<startNextRound(gameState, hands)>>, "startNextRound", 1)

Next ==
  \/ JoinExistingGame
  \/ AddBot
  \/ StartGame
  \/ HandlePlay
  \/ HandlePlayAreaDrop
  \/ HandlePass
  \/ AITurn
  \/ AutoSkip
  \/ EndRound
  \/ ContinueFromReveal
  \/ StartNextRound

Spec == Init /\ [][Next]_vars

(***************************************************************************)
(* The game with its scheduling.  The turn effects are timers that fire    *)
(* (1500 ms for a computer player, 500 ms for the skip of a finished       *)
(* player), endRound is the tail of a running play handler, and a human    *)
(* player to act is taken to submit a play or a pass eventually.           *)
(***************************************************************************)
Move == HandlePlay \/ HandlePlayAreaDrop \/ HandlePass \/ AITurn \/ AutoSkip \/ EndRound

\* the games of the medium computer player, whose shouldAIPlay tosses a coin
\* between the play and the pass
FairInit == Init /\ gameState.aiDifficulty = "medium"

SpecFair == FairInit /\ [][Next]_vars /\ WF_vars(Move)

(***************************************************************************)
(* The comparator on its own.  Two classified hands are drawn from         *)
(* HandCards: five 3s and four 2s (bombs of five cards of the lowest rank  *)
(* and of four cards of the highest), 5, 10 and K in every suit (same-suit *)
(* and mixed wushiks), two 4s, two 6s, a 7 and an 8 (straights of five and *)
(* six cards over 3..8, triple-doubles over 3..6) and the two jokers.  The *)
(* selections offered to validateHand are every selection of up to three   *)
(* cards, every larger selection of cards of one rank, and every selection *)
(* of one card, or of two cards, of each rank of a run of RANK_ORDER, up   *)
(* to MaxHandLen cards.  canBeatHand is applied to the pair as handlePlay  *)
(* applies it to a play and the hand on the table.                         *)
(***************************************************************************)
MaxHandLen == 6

HandCards ==
  {CardId(0, suit, "3") : suit \in SeqToSet(SUIT_ORDER)}
    \cup {CardId(1, "clubs", "3")}
    \cup {CardId(0, suit, "2") : suit \in SeqToSet(SUIT_ORDER)}
    \cup {CardId(0, suit, rank) : suit \in SeqToSet(SUIT_ORDER), rank \in {"5", "10", "K"}}
    \cup {CardId(0, suit, rank) : suit \in {"clubs", "spades"}, rank \in {"4", "6"}}
    \cup {CardId(0, "clubs", "7"), CardId(0, "clubs", "8")}
    \cup {52, 53}

\* the selections of k cards out of S
RECURSIVE SelectionsOfSize(_, _)
SelectionsOfSize(S, k) ==
  IF k = 0 THEN {{}}
  ELSE UNION {{T \cup {x} : T \in SelectionsOfSize({y \in S : y > x}, k - 1)} : x \in S}

OfRank(rank) == {c \in HandCards : RankOf(c) = rank}

\* the selections of m cards of each of the ranks RANK_ORDER[from..to]
RECURSIVE SelectionsOfRun(_, _, _)
SelectionsOfRun(from, to, m) ==
  IF from > to THEN {{}}
  ELSE UNION {{T \cup P : T \in SelectionsOfRun(from + 1, to, m)} :
                P \in SelectionsOfSize(OfRank(RANK_ORDER[from]), m)}

HandSelections ==
  UNION {SelectionsOfSize(HandCards, k) : k \in 1..3}
    \cup UNION {SelectionsOfSize(OfRank(rank), k) : rank \in SeqToSet(RANK_ORDER), k \in 4..MaxHandLen}
    \cup UNION {SelectionsOfRun(from, to, m) :
                  from \in 1..Len(RANK_ORDER), to \in 1..Len(RANK_ORDER), m \in 1..2}

\* the selections that validateHand does not reject, with the type it gives
ClassifiedHands ==
  {[cards |-> S, type |-> validateHand(S)] :
     S \in {T \in HandSelections :
              Cardinality(T) \in 1..MaxHandLen /\ validateHand(T) # "null"}}

\* const newHand: PlayedHand = { cards, type: handType, playerId }
PlayedHand(hand, playerId) ==
  [cards |-> hand.cards, type |-> hand.type, playerId |-> playerId]

CompareInit ==
  \E newHand \in ClassifiedHands, currentHand \in ClassifiedHands :
    /\ comparison = [newHand |-> PlayedHand(newHand, 1),
                     currentHand |-> PlayedHand(currentHand, 2),
                     result |-> "pending"]
    /\ gameState = createGame(0, "easy")
    /\ pc = "idle"
    /\ closure = NoClosure
    /\ lastOp = [op |-> "createGame", by |-> 1]
    /\ dealing = NoDealing
    /\ clients = NoClients

\* canBeatHand(newHand, currentHand)
CanBeatHand ==
  /\ comparison.result = "pending"
  /\ comparison' = [comparison EXCEPT !.result =
       IF canBeatHand(comparison.newHand, comparison.currentHand) THEN "beats" ELSE "rejected"]
  /\ UNCHANGED <<gameState, pc, closure, lastOp, dealing, clients>>

CompareNext == CanBeatHand

SpecCompare == CompareInit /\ [][CompareNext]_vars

(***************************************************************************)
(* The classifier on its own.  A selection of cards is drawn and           *)
(* validateHand is applied to it as handlePlay applies it to the selected  *)
(* cards.  Selections of up to three cards are drawn from SmallCards (two  *)
(* decks: the jokers of the first deck and the small joker of the second,  *)
(* a 10 and a K beside the cards below); selections of four to             *)
(* MaxSelectionLen cards are drawn from LargeCards: four 3s, two 4s, two   *)
(* 5s, a 6, a 7, an A, a 2 and a joker.                                    *)
(***************************************************************************)
MaxSelectionLen == 6

LargeCards ==
  {CardId(0, suit, "3") : suit \in SeqToSet(SUIT_ORDER)}
    \cup {CardId(0, suit, rank) : suit \in {"clubs", "diamonds"}, rank \in {"4", "5"}}
    \cup {CardId(0, "clubs", rank) : rank \in {"6", "7", "A", "2"}}
    \cup {52}

SmallCards ==
  LargeCards \cup {53, CardsPerDeck + 52, CardId(0, "hearts", "10"), CardId(0, "spades", "K")}

CardSelections ==
  UNION {SelectionsOfSize(SmallCards, k) : k \in 1..3}
    \cup UNION {SelectionsOfSize(LargeCards, k) : k \in 4..MaxSelectionLen}

\* const cards = selectedCards.map(...); the hand is not classified yet
ClassifyInit ==
  \E cards \in CardSelections :
    /\ comparison = [newHand |-> [cards |-> cards, type |-> "unclassified", playerId |-> 1],
                     currentHand |-> NoHand,
                     result |-> "none"]
    /\ gameState = createGame(0, "easy")
    /\ pc = "idle"
    /\ closure = NoClosure
    /\ lastOp = [op |-> "createGame", by |-> 1]
    /\ dealing = NoDealing
    /\ clients = NoClients

\* const handType = validateHand(cards)
ValidateHand ==
  /\ comparison.newHand.type = "unclassified"
  /\ comparison' = [comparison EXCEPT !.newHand.type = validateHand(comparison.newHand.cards)]
  /\ UNCHANGED <<gameState, pc, closure, lastOp, dealing, clients>>

ClassifyNext == ValidateHand

SpecClassify == ClassifyInit /\ [][ClassifyNext]_vars

(***************************************************************************)
(* The deal on its own, with every card of the decks in play.  For a       *)
(* roster of up to MaxDealPlayers players (two decks from five players on) *)
(* createDeck builds and shuffles the deck, the shuffle moving at most     *)
(* MaxDealSwaps cards, dealCards deals it, and startGame (from the lobby)  *)
(* or startNextRound (from the round-end screen) hands out the hands.      *)
(***************************************************************************)
MaxDealPlayers == 5
MaxDealSwaps == 1

\* the deck createDeck has pushed before it shuffles: deck by deck, suit by
\* suit, rank by rank, then the small and the big joker
WholeDeck(numDecks) == [k \in 1..(numDecks * CardsPerDeck) |-> k - 1]

\* the draws j of shuffleDeck for i = n-1 .. 1 of which at most maxSwaps
\* move a card
RECURSIVE DrawsWithin(_, _)
DrawsWithin(n, maxSwaps) ==
  IF maxSwaps = 0 THEN {[i \in 1..(n - 1) |-> i]}
  ELSE LET fewer == DrawsWithin(n, maxSwaps - 1)
       IN fewer \cup UNION {{[d EXCEPT ![i] = j] : j \in 0..(i - 1)} :
                              d \in fewer, i \in 1..(n - 1)}

\* the document on which the round is started
DealGame(numPlayers, status) ==
  [createGame(numPlayers - 1, "easy") EXCEPT !.gameStatus = status]

DealInit ==
  \E numPlayers \in 1..MaxDealPlayers, status \in {"waiting", "round-end"} :
    \E draws \in DrawsWithin(CardsPerDeck * NumDecks(numPlayers), MaxDealSwaps) :
      /\ status = "round-end" => numPlayers >= 3
      /\ dealing = [step |-> "start", numPlayers |-> numPlayers, draws |-> draws,
                    deck |-> <<>>, hands |-> <<>>]
      /\ gameState = DealGame(numPlayers, status)
      /\ pc = "idle"
      /\ closure = NoClosure
      /\ lastOp = [op |-> "createGame", by |-> 1]
      /\ comparison = NoComparison
      /\ clients = NoClients

\* const deck = createDeck(numDecks)
CreateDeck ==
  /\ dealing.step = "start"
  /\ dealing' = [dealing EXCEPT
       !.step = "deck",
       !.deck = shuffleDeck(WholeDeck(NumDecks(dealing.numPlayers)), dealing.draws)]
  /\ UNCHANGED <<gameState, pc, closure, lastOp, comparison, clients>>

\* const hands = dealCards(deck, numPlayers)
DealCards ==
  /\ dealing.step = "deck"
  /\ dealing' = [dealing EXCEPT !.step = "dealt",
                                !.hands = dealCards(dealing.deck, dealing.numPlayers)]
  /\ UNCHANGED <<gameState, pc, closure, lastOp, comparison, clients>>

DealtStartGame ==
  /\ dealing.step = "dealt"
  /\ gameState.gameStatus = "waiting"
  /\ gameState' = startGame(gameState, dealing.hands)
  /\ lastOp' = [op |-> "startGame", by |-> 1]
  /\ dealing' = [dealing EXCEPT !.step = "started"]
  /\ UNCHANGED <<pc, closure, comparison, clients>>

DealtStartNextRound ==
  /\ dealing.step = "dealt"
  /\ gameState.gameStatus = "round-end"
  /\ gameState' = startNextRound(gameState, dealing.hands)
  /\ lastOp' = [op |-> "startNextRound", by |-> 1]
  /\ dealing' = [dealing EXCEPT !.step = "started"]
  /\ UNCHANGED <<pc, closure, comparison, clients>>

DealNext == CreateDeck \/ DealCards \/ DealtStartGame \/ DealtStartNextRound

SpecDeal == DealInit /\ [][DealNext]_vars

(***************************************************************************)
(* The computer player on its own.  A game is under way with three players *)
(* holding cards; it is the turn of the computer player in seat 2, whose   *)
(* hand is any selection of up to MaxAIHand cards of AICards (four 4s, two *)
(* 5s, the 10 and the K of spades, the K of clubs, an A and a joker).  The *)
(* table is empty or holds a hand of seat 1 (a single 3 or J, a pair or    *)
(* triple of 3s, a mixed wushik, four 3s).  The turn effect asks           *)
(* makeAIMove and writes the play or the pass.                             *)
(***************************************************************************)
MaxAIHand == 6

AICards ==
  {CardId(0, suit, "4") : suit \in SeqToSet(SUIT_ORDER)}
    \cup {CardId(0, "clubs", "5"), CardId(0, "spades", "5"), CardId(0, "spades", "10"),
          CardId(0, "clubs", "K"), CardId(0, "spades", "K"), CardId(0, "diamonds", "A"), 53}

TableSelections ==
  { {CardId(0, "clubs", "3")},
    {CardId(0, "clubs", "J")},
    {CardId(0, "clubs", "3"), CardId(0, "diamonds", "3")},
    {CardId(0, "clubs", "3"), CardId(0, "diamonds", "3"), CardId(0, "hearts", "3")},
    {CardId(0, "hearts", "5"), CardId(0, "diamonds", "10"), CardId(0, "diamonds", "K")},
    {CardId(0, suit, "3") : suit \in SeqToSet(SUIT_ORDER)} }

\* what seat 1 has played, or nothing when the computer player leads
TableHands ==
  {NoHand} \cup {[cards |-> S, type |-> validateHand(S), playerId |-> 1] : S \in TableSelections}

AIHands == UNION {SelectionsOfSize(AICards, k) : k \in 1..MaxAIHand}

\* the document of a round under way in which seat 2 is to act
AIGame(hand, table, difficulty) ==
  LET lobby == createGame(2, difficulty)
      held == [i \in 1..3 |-> IF i = 1 THEN {CardId(0, "clubs", "8")}
                              ELSE IF i = 2 THEN hand
                              ELSE {CardId(0, "clubs", "9")}]
  IN [lobby EXCEPT !.players = DealTo(lobby, held),
                   !.currentPlayerId = 2,
                   !.currentHand = table,
                   !.playedCards = CardSeq(table.cards),
                   !.gameStatus = "playing",
                   !.firstPlayerId = 1]

AIInit ==
  \E hand \in AIHands, table \in TableHands, difficulty \in Difficulties :
    /\ gameState = AIGame(hand, table, difficulty)
    /\ pc = "idle"
    /\ closure = NoClosure
    /\ lastOp = [op |-> IF table = NoHand THEN "collectCards" ELSE "playHand", by |-> 1]
    /\ comparison = NoComparison
    /\ dealing = NoDealing
    /\ clients = NoClients

AINext == AITurn

SpecAI == AIInit /\ [][AINext]_vars

(***************************************************************************)
(***************************************************************************)
(* The clients.  Every human player runs the Game component in a browser:  *)
(* its gameState is the copy of the document the subscription delivered    *)
(* last (view); its handlers and timers read that copy, and every write    *)
(* replaces the stored document.  The turn effects run in every client:    *)
(* when currentPlayerId or gameStatus of the copy changes the pending       *)
(* timers are cleared and new ones are set, and a timer that fires works   *)
(* on the copy it was set with.  clients.lastMove and clients.lastContinue *)
(* record the last play or pass and the last continueFromReveal: the copy  *)
(* they were computed from and the client(s) that wrote them.  A round is  *)
(* under way between two human players and a computer player, dealt the    *)
(* four cards of ClientHands; a delivery hands a client the latest stored  *)
(* document.                                                               *)
(***************************************************************************)
ClientHands ==
  << {CardId(0, "spades", "3")},
     {CardId(0, "clubs", "4")},
     {CardId(0, "clubs", "3"), CardId(0, "hearts", "10")} >>

\* the document startGame writes for two human players and a computer player
\* in the third seat
ClientsGame(difficulty) ==
  startGame(addBot(joinExistingGame(createGame(0, difficulty))), ClientHands)

\* the timer the AI turn effect sets for a copy of the document
ArmAITimer(view) == IF AITurnEnabled(view) THEN view ELSE NoClosure

\* the timer the auto-skip effect sets for a copy of the document
ArmSkipTimer(view) == IF AutoSkipEnabled(view) THEN view ELSE NoClosure

ClientsInit ==
  \E difficulty \in Difficulties :
    /\ gameState = ClientsGame(difficulty)
    /\ pc = "idle"
    /\ closure = NoClosure
    /\ lastOp = [op |-> "startGame", by |-> 1]
    /\ comparison = NoComparison
    /\ dealing = NoDealing
    /\ clients = [NoClients EXCEPT
         !.view = [c \in Humans(gameState) |-> gameState],
         !.aiTimer = [c \in Humans(gameState) |-> ArmAITimer(gameState)],
         !.skipTimer = [c \in Humans(gameState) |-> ArmSkipTimer(gameState)]]

\* a handler or timer of a client, working on the copy base, makes its first
\* write; a second write (the reveal document of endRound) is left pending
WriteFrom(base, writes, op, by) ==
  /\ pc = "idle"
  /\ Len(writes) > 0
  /\ gameState' = writes[1]
  /\ lastOp' = [op |-> op, by |-> by]
  /\ IF Len(writes) > 1
     THEN pc' = "endRound" /\ closure' = base
     ELSE pc' = "idle" /\ closure' = NoClosure
  /\ UNCHANGED <<comparison, dealing>>

\* the subscription callback: setGameState(payload.new.state), after which
\* the effects run again if one of their dependencies has changed
Deliver(c) ==
  /\ clients.view[c] # gameState
  /\ LET old == clients.view[c]
         rerun == \/ old.currentPlayerId # gameState.currentPlayerId
                  \/ old.gameStatus # gameState.gameStatus
     IN clients' = [clients EXCEPT
          !.view[c] = gameState,
          !.aiTimer[c] = IF rerun THEN ArmAITimer(gameState) ELSE @,
          !.skipTimer[c] = IF rerun THEN ArmSkipTimer(gameState) ELSE @]
  /\ UNCHANGED <<gameState, pc, closure, lastOp, comparison, dealing>>

\* the timer of the AI turn effect of client c fires
AITimerFires(c) ==
  /\ clients.aiTimer[c] # NoClosure
  /\ LET base == clients.aiTimer[c]
         actor == base.currentPlayerId
     IN \E aiDecision \in makeAIMove(base.players[actor], base.currentHand, base.aiDifficulty) :
          /\ WriteFrom(base, aiTurn(base, aiDecision),
                       IF aiDecision.action = "play" THEN "playHandForAI"
                       ELSE PassOp(base, actor, "handlePassForAI"),
                       actor)
          /\ clients' = [clients EXCEPT !.aiTimer[c] = NoClosure,
                                        !.lastMove = [base |-> base, client |-> c]]

\* the timer of the auto-skip effect of client c fires
SkipTimerFires(c) ==
  /\ clients.skipTimer[c] # NoClosure
  /\ LET base == clients.skipTimer[c]
     IN /\ WriteFrom(base, autoSkip(base), "autoSkip", base.currentPlayerId)
        /\ clients' = [clients EXCEPT !.skipTimer[c] = NoClosure]

\* the player of client c plays cards of the hand the copy shows
ClientPlay(c) ==
  LET base == clients.view[c]
  IN /\ base.gameStatus = "playing"
     /\ \E selectedCards \in SUBSET base.players[c].hand :
          WriteFrom(base, handlePlay(base, c, selectedCards), "playHand", c)
     /\ clients' = [clients EXCEPT !.lastMove = [base |-> base, client |-> c]]

\* the player of client c clicks Pass
ClientPass(c) ==
  LET base == clients.view[c]
  IN /\ base.gameStatus = "playing"
     /\ WriteFrom(base, clickPass(base, c), PassOp(base, c, "handlePass"), c)
     /\ clients' = [clients EXCEPT !.lastMove = [base |-> base, client |-> c]]

\* the player of client c clicks Continue on the reveal screen
ClientContinue(c) ==
  LET base == clients.view[c]
      same == clients.lastContinue.base = base
  IN /\ base.gameStatus = "round-reveal"
     /\ WriteFrom(base, continueFromReveal(base), "continueFromReveal", c)
     /\ clients' = [clients EXCEPT !.lastContinue =
          [base |-> base,
           by |-> IF same THEN clients.lastContinue.by \cup {c} ELSE {c},
           repeated |-> same]]

ClientsNext ==
  \/ \E c \in DOMAIN clients.view : Deliver(c)
  \/ \E c \in DOMAIN clients.view : AITimerFires(c)
  \/ \E c \in DOMAIN clients.view : SkipTimerFires(c)
  \/ \E c \in DOMAIN clients.view : ClientPlay(c)
  \/ \E c \in DOMAIN clients.view : ClientPass(c)
  \/ \E c \in DOMAIN clients.view : ClientContinue(c)
  \/ EndRound

SpecClients == ClientsInit /\ [][ClientsNext]_vars

(* Vocabulary of the properties.  A step is named by lastOp', the handler  *)
(* that made the write; a play handler has completed when pc' = "idle".    *)
(***************************************************************************)
PlayOps == {"playHand", "playHandForAI"}

PassOps == {"handlePass", "handlePassForAI", "collectCards"}

\* the point value of a card as the rules give it: 5 for a five, 10 for a ten
\* and for a king
PointValue(c) ==
  IF IsJoker(c) THEN 0
  ELSE IF RankOf(c) = "5" THEN 5
  ELSE IF RankOf(c) \in {"10", "K"} THEN 10
  ELSE 0

RECURSIVE PoolValue(_)
PoolValue(pool) ==
  IF pool = <<>> THEN 0 ELSE PointValue(Head(pool)) + PoolValue(Tail(pool))

HandValue(hand) == PoolValue(CardSeq(hand))

Unfinished(gs) == {i \in Seats(gs) : ~gs.players[i].hasFinished}

\* the nearest seat after the actor, wrapping, whose player has not finished
NextUnfinishedAfter(gs, actor) ==
  LET n == Len(gs.players)
      seat(d) == ((actor - 1 + d) % n) + 1
      d0 == CHOOSE d \in 1..n :
              /\ seat(d) \in Unfinished(gs)
              /\ \A e \in 1..(d - 1) : seat(e) \notin Unfinished(gs)
  IN seat(d0)

SamePoints(P, Q, i) ==
  /\ Q[i].tempPoints = P[i].tempPoints
  /\ Q[i].totalPoints = P[i].totalPoints

\* the document a completing play handler was started on
PlayedOn == IF pc = "endRound" THEN closure ELSE gameState

PlayCompletes == lastOp'.op \in PlayOps \cup {"endRound"} /\ pc' = "idle"

C2_RevealRedistribution ==
  [][lastOp'.op = "continueFromReveal" =>
       LET last == gameState.lastPlayerId
           P == gameState.players
           Q == gameState'.players
           bonus(i) == (IF P[i].finishPosition = 1 THEN P[last].tempPoints ELSE 0)
                       + (IF P[i].finishPosition = 2 THEN HandValue(P[last].hand) ELSE 0)
       IN /\ Seats(gameState') = Seats(gameState)
          /\ \A i \in Seats(gameState) :
               /\ Q[i].totalPoints = P[i].totalPoints
                                     + (IF i = last THEN 0 ELSE P[i].tempPoints + bonus(i))
               /\ Q[i].tempPoints = 0
               /\ ~Q[i].hasFinished
               /\ Q[i].finishPosition = 0]_vars

\* the first round was settled with a last player who holds point cards and
\* got nothing, and two other players who scored
C2_Witness ==
  /\ lastOp.op = "continueFromReveal"
  /\ gameState.roundNumber = 1
  /\ LET last == gameState.lastPlayerId
         P == gameState.players
     IN /\ HandValue(P[last].hand) > 0
        /\ P[last].totalPoints = 0
        /\ \E i, j \in Seats(gameState) :
             /\ i # j /\ i # last /\ j # last
             /\ P[i].totalPoints > HandValue(P[last].hand)
             /\ P[j].totalPoints = HandValue(P[last].hand)

(***************************************************************************)
(* C3: a pass ends the trick exactly when, counting that pass, the passed  *)
(* set equals the set of all non-finished players other than the owner of  *)
(* the active hand; any earlier pass only appends the passer to the passed *)
(* set and advances the turn, leaving hands, pool, active hand and points  *)
(* unchanged.                                                              *)
(***************************************************************************)
C3_PassEndsTrickExactlyWhenAllOthersPassed ==
  [][lastOp'.op \in PassOps =>
       LET by == lastOp'.by
           passed == SeqToSet(gameState.passedPlayerIds) \cup {by}
           others == Unfinished(gameState) \ {gameState.currentHand.playerId}
       IN IF passed = others
          THEN /\ lastOp'.op = "collectCards"
               /\ gameState'.currentHand = NoHand
               /\ gameState'.playedCards = <<>>
          ELSE /\ gameState' = [gameState EXCEPT
                                  !.passedPlayerIds = Append(@, by),
                                  !.currentPlayerId = gameState'.currentPlayerId]
               /\ gameState'.currentPlayerId # gameState.currentPlayerId]_vars

(***************************************************************************)
(* C4: after a successful play the phase becomes round-reveal if and only  *)
(* if exactly one player still holds cards; that player is lastPlayerId    *)
(* and keeps the remaining hand, and neither the play nor the switch       *)
(* changes any player's tempPoints or totalPoints.                         *)
(***************************************************************************)
C4_RoundEndsWhenOnePlayerHoldsCards ==
  [][lastOp'.op \in PlayOps \cup {"endRound"} =>
       LET P == gameState.players
           Q == gameState'.players
           holders == PlayersWithCards(Q)
       IN /\ Seats(gameState') = Seats(gameState)
          /\ \A i \in Seats(gameState) : SamePoints(P, Q, i)
          /\ pc' = "idle" =>
               /\ (gameState'.gameStatus = "round-reveal") <=> (Cardinality(holders) = 1)
               /\ gameState'.gameStatus = "round-reveal" =>
                    /\ holders = {gameState'.lastPlayerId}
                    /\ Q[gameState'.lastPlayerId].hand
                         = PlayedOn.players[gameState'.lastPlayerId].hand]_vars

\* a play has switched the phase to round-reveal, the last player holding
\* cards and some collected points on the table
C4_Witness ==
  /\ lastOp.op = "endRound"
  /\ gameState.gameStatus = "round-reveal"
  /\ gameState.players[gameState.lastPlayerId].hand # {}
  /\ \E i \in Seats(gameState) : gameState.players[i].tempPoints > 0

C6_NoPassWithoutActiveHand ==
  /\ []((gameState.gameStatus = "playing" /\ gameState.currentHand = NoHand) =>
          /\ \A p \in Seats(gameState) : clickPass(gameState, p) = <<>>
          /\ AITurnEnabled(gameState) =>
               \A aiDecision \in makeAIMove(gameState.players[gameState.currentPlayerId],
                                            gameState.currentHand, gameState.aiDifficulty) :
                 aiDecision.action = "play")
  /\ [][gameState.currentHand = NoHand =>
          /\ lastOp'.op \notin PassOps
          /\ gameState'.passedPlayerIds = gameState.passedPlayerIds]_vars

\* the human player to act holds cards and has to lead: the trick was just
\* collected and the Pass button does nothing
C6_Witness ==
  /\ gameState.gameStatus = "playing"
  /\ lastOp.op = "collectCards"
  /\ gameState.currentHand = NoHand
  /\ gameState.currentPlayerId \in Humans(gameState)
  /\ gameState.players[gameState.currentPlayerId].hand # {}
  /\ clickPass(gameState, gameState.currentPlayerId) = <<>>

(***************************************************************************)
(* C7: a play is rejected with no state change when the selected cards     *)
(* form no valid kind, when they do not beat the active hand, or when a    *)
(* named card is not in the acting player's hand - through the Play button *)
(* and through a drop on the play area.                                    *)
(***************************************************************************)
C7_InvalidPlayRejected ==
  (gameState.gameStatus = "playing" /\ pc = "idle") =>
    \A p \in Humans(gameState) :
      \A sel \in Selections(gameState, p) :
        LET hand == gameState.players[p].hand
            kind == validateHand(sel)
            noKind == kind = "null"
            notBeating == /\ kind # "null"
                          /\ gameState.currentHand # NoHand
                          /\ ~canBeatHand([cards |-> sel, type |-> kind, playerId |-> p],
                                          gameState.currentHand)
            notInHand == sel \ hand # {}
        IN (noKind \/ notBeating \/ notInHand) =>
             /\ handlePlay(gameState, p, sel) = <<>>
             /\ sel \cap hand # {} => handlePlayAreaDrop(gameState, p, sel) = <<>>

(***************************************************************************)
(* C8: a successful play removes exactly the played cards from the actor's *)
(* hand, appends them to the pool, makes them the active hand owned by the *)
(* actor and empties the passed set; every other hand and every player's   *)
(* tempPoints and totalPoints are unchanged.  Stated of the document the   *)
(* play handler leaves when it has completed.                              *)
(***************************************************************************)
C8_PlayMovesCardsToPool ==
  [][PlayCompletes =>
       LET pre == PlayedOn
           post == gameState'
           actor == lastOp'.by
           played == pre.players[actor].hand \ post.players[actor].hand
           n == Len(pre.playedCards)
       IN /\ played # {}
          /\ post.players[actor].hand \subseteq pre.players[actor].hand
          /\ Len(post.playedCards) = n + Cardinality(played)
          /\ SubSeq(post.playedCards, 1, n) = pre.playedCards
          /\ SeqToSet(SubSeq(post.playedCards, n + 1, Len(post.playedCards))) = played
          /\ post.currentHand.cards = played
          /\ post.currentHand.playerId = actor
          /\ post.passedPlayerIds = <<>>
          /\ \A i \in Seats(pre) :
               /\ i # actor => post.players[i].hand = pre.players[i].hand
               /\ SamePoints(pre.players, post.players, i)]_vars

(***************************************************************************)
(* C9: after a successful play, or a pass that does not end the trick, the *)
(* player to act is the nearest player after the actor in seating order    *)
(* (wrapping) who has not finished; the turn never stays with the actor.   *)
(***************************************************************************)
C9_TurnAdvancesToNextUnfinished ==
  [][(PlayCompletes \/ lastOp'.op \in {"handlePass", "handlePassForAI"}) =>
       /\ gameState'.currentPlayerId = NextUnfinishedAfter(gameState', lastOp'.by)
       /\ gameState'.currentPlayerId # lastOp'.by]_vars

(***************************************************************************)
(* C10: a player is marked finished at the play that empties the hand and  *)
(* receives the next unused finish position; positions are 1, 2, 3, ... in *)
(* order of finishing, unique within the round, and a position once        *)
(* assigned does not change until continueFromReveal clears it.            *)
(***************************************************************************)
C10_FinishPositions ==
  /\ [](LET P == gameState.players
            F == {i \in Seats(gameState) : P[i].hasFinished}
        IN /\ \A i \in Seats(gameState) \ F : P[i].finishPosition = 0
           /\ {P[i].finishPosition : i \in F} = 1..Cardinality(F)
           /\ \A i, j \in F : P[i].finishPosition = P[j].finishPosition => i = j)
  /\ [][LET P == gameState.players
            Q == gameState'.players
        IN /\ lastOp'.op \in PlayOps =>
                LET actor == lastOp'.by
                IN IF Q[actor].hand = {}
                   THEN /\ Q[actor].hasFinished
                        /\ Q[actor].finishPosition = FinishedCount(gameState) + 1
                   ELSE ~Q[actor].hasFinished
           /\ lastOp'.op # "continueFromReveal" =>
                \A i \in Seats(gameState) :
                  /\ P[i].finishPosition # 0 => Q[i].finishPosition = P[i].finishPosition
                  /\ Q[i].finishPosition # P[i].finishPosition =>
                       /\ lastOp'.op \in PlayOps
                       /\ i = lastOp'.by
                       /\ P[i].hand # {}
                       /\ Q[i].hand = {}]_vars

\* the round has been played to its end: two players finished, first and
\* second, and the third still holds cards
C10_Witness ==
  /\ gameState.gameStatus = "round-reveal"
  /\ \E i, j \in Seats(gameState) :
       /\ gameState.players[i].finishPosition = 1
       /\ gameState.players[j].finishPosition = 2
       /\ gameState.players[i].hand = {}
       /\ gameState.players[j].hand = {}
  /\ gameState.players[gameState.lastPlayerId].finishPosition = 0

(***************************************************************************)
(* C11: continueFromReveal moves to game-end if and only if some player's  *)
(* new totalPoints is at least targetPoints, and then records as winner    *)
(* the first such player in seating order; otherwise it moves to round-end *)
(* and records no winner.                                                  *)
(***************************************************************************)
C11_GameEndsAtTarget ==
  [][lastOp'.op = "continueFromReveal" =>
       LET Q == gameState'.players
           reached == {i \in Seats(gameState') : Q[i].totalPoints >= gameState'.targetPoints}
       IN /\ gameState'.targetPoints = gameState.targetPoints
          /\ IF reached # {}
             THEN /\ gameState'.gameStatus = "game-end"
                  /\ gameState'.winnerId \in reached
                  /\ \A k \in reached : gameState'.winnerId <= k
             ELSE /\ gameState'.gameStatus = "round-end"
                  /\ gameState'.winnerId = NoPlayer]_vars

\* the game has ended with two players at or above the target, the later
\* seat with more points than the recorded winner
C11_Witness ==
  /\ lastOp.op = "continueFromReveal"
  /\ gameState.gameStatus = "game-end"
  /\ \E j \in Seats(gameState) :
       /\ j > gameState.winnerId
       /\ gameState.players[j].totalPoints > gameState.players[gameState.winnerId].totalPoints
       /\ gameState.players[gameState.winnerId].totalPoints = gameState.targetPoints

\* the players in seating order
Roster(gs) == [i \in Seats(gs) |-> gs.players[i].id]

PhaseEdges ==
  { <<"waiting", "playing">>, <<"playing", "round-reveal">>,
    <<"round-reveal", "round-end">>, <<"round-reveal", "game-end">>,
    <<"round-end", "playing">> }

(***************************************************************************)
(* C12: the phase changes only along waiting -> playing, playing ->        *)
(* round-reveal, round-reveal -> round-end, round-reveal -> game-end and   *)
(* round-end -> playing; round-reveal is left only by continueFromReveal;  *)
(* and once the phase is game-end no action changes the phase, the players *)
(* or any points.                                                          *)
(***************************************************************************)
C12_PhaseEdgesAndTerminalGameEnd ==
  [][/\ gameState'.gameStatus # gameState.gameStatus =>
          <<gameState.gameStatus, gameState'.gameStatus>> \in PhaseEdges
     /\ (gameState.gameStatus = "round-reveal" /\ gameState'.gameStatus # "round-reveal") =>
          lastOp'.op = "continueFromReveal"
     /\ gameState.gameStatus = "game-end" =>
          /\ gameState'.gameStatus = "game-end"
          /\ gameState'.players = gameState.players]_vars

(***************************************************************************)
(* C13: the player list changes (a human joining, a bot being added) only  *)
(* while the phase is waiting; from the first deal onward the set and the  *)
(* seating order of the players is fixed.                                  *)
(***************************************************************************)
C13_RosterChangesOnlyInWaiting ==
  [][gameState.gameStatus # "waiting" => Roster(gameState') = Roster(gameState)]_vars

(***************************************************************************)
(* C14: a play is applied as one transition with its cascades: no stored   *)
(* document has phase playing while fewer than two players hold cards, so  *)
(* the play that leaves one player with cards and the switch to            *)
(* round-reveal are never two separate states.                             *)
(***************************************************************************)
C14_NoPlayingStateWithOneHolder ==
  gameState.gameStatus = "playing" =>
    Cardinality(PlayersWithCards(gameState.players)) >= 2

(***************************************************************************)
(* C15: startNextRound, applied in phase round-end, increments roundNumber *)
(* by exactly 1, sets the phase to playing, clears the active hand, the    *)
(* pool and the passed set, gives every player a hand of a freshly built   *)
(* and dealt deck (the hands partition the whole deck, dealt round-robin), *)
(* and leaves every player's totalPoints unchanged.                        *)
(***************************************************************************)
C15_StartNextRound ==
  [][lastOp'.op = "startNextRound" =>
       LET P == gameState.players
           Q == gameState'.players
           n == Len(P)
           deck == CardsInPlay(NumDecks(n))
       IN /\ gameState.gameStatus = "round-end"
          /\ gameState'.roundNumber = gameState.roundNumber + 1
          /\ gameState'.gameStatus = "playing"
          /\ gameState'.currentHand = NoHand
          /\ gameState'.playedCards = <<>>
          /\ gameState'.passedPlayerIds = <<>>
          /\ Roster(gameState') = Roster(gameState)
          /\ UNION {Q[i].hand : i \in 1..n} = deck
          /\ \A i, j \in 1..n :
               /\ i # j => Q[i].hand \cap Q[j].hand = {}
               /\ Cardinality(Q[i].hand) - Cardinality(Q[j].hand) \in {-1, 0, 1}
          /\ \A i \in 1..n : Q[i].totalPoints = P[i].totalPoints]_vars

\* a second round has been dealt to players who scored in the first, after
\* a round that left cards in a hand and in the pool
C15_Witness ==
  /\ lastOp.op = "startNextRound"
  /\ gameState.roundNumber = 2
  /\ \E i \in Seats(gameState) : gameState.players[i].totalPoints > 0
  /\ \A i \in Seats(gameState) : gameState.players[i].hand # {}


(***************************************************************************)
(* Vocabulary of the comparator properties: the two hands compared and the *)
(* verdict of canBeatHand once it has been applied.                        *)
(***************************************************************************)
NewHand == comparison.newHand
CurrentHand == comparison.currentHand
Compared == comparison.result \in {"beats", "rejected"}
Beats == comparison.result = "beats"
PowerKinds == {"bomb", "wushik"}
NonPowerKinds == {"single", "pair", "triple", "straight", "triple-double"}

\* C16: for every two validly classified hands a and b, canBeatHand(a, b)
\* and canBeatHand(b, a) are never both true: when the new hand beats the
\* current hand, the current hand does not beat the new hand.
C16_NeverBothBeat ==
  Beats => ~canBeatHand(CurrentHand, NewHand)

\* the new hand beats a hand of its own kind and length
C16_Witness ==
  /\ Beats
  /\ NewHand.type = "pair" /\ CurrentHand.type = "pair"
  /\ NewHand.cards \cap CurrentHand.cards = {}

BombRank(hand) == MaxOf({IndexOf(RANK_ORDER, RankOf(c)) : c \in hand.cards})
HandLength(hand) == Cardinality(hand.cards)

\* C18: between two bombs the new one beats the current one exactly when it
\* has strictly more cards, or as many cards and a strictly higher rank (so
\* a bomb of fewer cards never wins and a bomb of equal length and rank does
\* not beat).
C18_BombOverBomb ==
  (Compared /\ NewHand.type = "bomb" /\ CurrentHand.type = "bomb") =>
    (Beats <=> \/ HandLength(NewHand) > HandLength(CurrentHand)
               \/ /\ HandLength(NewHand) = HandLength(CurrentHand)
                  /\ BombRank(NewHand) > BombRank(CurrentHand))

\* five 3s have beaten four 2s
C18_Witness ==
  /\ Beats
  /\ NewHand.type = "bomb" /\ CurrentHand.type = "bomb"
  /\ HandLength(NewHand) = 5 /\ HandLength(CurrentHand) = 4
  /\ BombRank(NewHand) < BombRank(CurrentHand)

\* the suits from the lowest to the highest
SuitPrecedence == <<"clubs", "diamonds", "hearts", "spades">>
SingleSuited(hand) == Cardinality({SuitOf(c) : c \in hand.cards}) = 1
\* the place in SuitPrecedence of the suit of a single-suited hand
SuitPlace(hand) == MaxOf({IndexOf(SuitPrecedence, SuitOf(c)) : c \in hand.cards})

\* C19: between two wushiks the new one beats the current one exactly when
\* it is single-suited and the current one is not, or both are single-suited
\* and the suit of the new one is strictly higher in clubs < diamonds <
\* hearts < spades (so two mixed-suit wushiks never beat each other and a
\* mixed-suit wushik never beats a single-suited one).
C19_WushikOverWushik ==
  (Compared /\ NewHand.type = "wushik" /\ CurrentHand.type = "wushik") =>
    (Beats <=> \/ SingleSuited(NewHand) /\ ~SingleSuited(CurrentHand)
               \/ /\ SingleSuited(NewHand) /\ SingleSuited(CurrentHand)
                  /\ SuitPlace(NewHand) > SuitPlace(CurrentHand))

\* the wushik of hearts has beaten the wushik of diamonds
C19_Witness ==
  /\ Beats
  /\ NewHand.cards = {CardId(0, "hearts", rank) : rank \in {"5", "10", "K"}}
  /\ CurrentHand.cards = {CardId(0, "diamonds", rank) : rank \in {"5", "10", "K"}}

\* the place of a card in 3 < 4 < ... < A < 2 < small joker < big joker
RankPlace(c) ==
  IF IsJoker(c)
  THEN (IF JokerType(c) = "small" THEN Len(RANK_ORDER) + 1 ELSE Len(RANK_ORDER) + 2)
  ELSE IndexOf(RANK_ORDER, RankOf(c))
HighestPlace(hand) == MaxOf({RankPlace(c) : c \in hand.cards})

\* C20: between two regular hands (single, pair, triple, straight,
\* triple-double) the new one beats the current one exactly when both are
\* of the same kind and of the same number of cards and the highest rank
\* value of the new hand is strictly greater than that of the current hand.
C20_RegularOverRegular ==
  (Compared /\ NewHand.type \in NonPowerKinds /\ CurrentHand.type \in NonPowerKinds) =>
    (Beats <=> /\ NewHand.type = CurrentHand.type
               /\ HandLength(NewHand) = HandLength(CurrentHand)
               /\ HighestPlace(NewHand) > HighestPlace(CurrentHand))

\* a straight of five cards has beaten a lower straight of five cards
C20_Witness ==
  /\ Beats
  /\ NewHand.type = "straight" /\ CurrentHand.type = "straight"
  /\ HandLength(NewHand) = 5 /\ HandLength(CurrentHand) = 5

(***************************************************************************)
(* Vocabulary of the classifier properties: the selection and the type     *)
(* validateHand has given it.                                              *)
(***************************************************************************)
Selected == comparison.newHand.cards
Classified == comparison.newHand.type \notin {"unclassified", "none"}
HandType == comparison.newHand.type
RanksOf(cards) == {RankOf(c) : c \in cards \ {j \in cards : IsJoker(j)}}
NoJokerIn(cards) == \A c \in cards : ~IsJoker(c)

\* C21: a selection of two cards is a pair exactly when both cards are
\* ranked cards of one rank; a selection of two cards holding a joker is
\* rejected.
C21_PairOfOneRank ==
  (Classified /\ Cardinality(Selected) = 2) =>
    /\ HandType = "pair" <=> (NoJokerIn(Selected) /\ Cardinality(RanksOf(Selected)) = 1)
    /\ HandType \in {"pair", "null"}

\* C22: a selection of three cards is a triple exactly when the three are
\* ranked cards of one rank; otherwise it is a wushik exactly when its ranks
\* are 5, 10 and K with no joker; every other selection of three cards is
\* rejected.
C22_TripleOrWushik ==
  (Classified /\ Cardinality(Selected) = 3) =>
    HandType = IF NoJokerIn(Selected) /\ Cardinality(RanksOf(Selected)) = 1 THEN "triple"
               ELSE IF NoJokerIn(Selected) /\ RanksOf(Selected) = {"5", "10", "K"} THEN "wushik"
               ELSE "null"

\* the places in 3 < 4 < ... < A < 2 of the ranks of a selection
PlacesOf(cards) == {IndexOf(RANK_ORDER, r) : r \in RanksOf(cards)}
\* the places are consecutive, without a gap and without a wrap from 2 to 3
Consecutive(places) ==
  places # {} /\ MaxOf(places) - (CHOOSE x \in places : \A y \in places : x <= y)
                   = Cardinality(places) - 1
BombShape(cards) == NoJokerIn(cards) /\ Cardinality(RanksOf(cards)) = 1
StraightShape(cards) ==
  /\ Cardinality(cards) >= 5
  /\ NoJokerIn(cards)
  /\ Cardinality(RanksOf(cards)) = Cardinality(cards)
  /\ Consecutive(PlacesOf(cards))
TripleDoubleShape(cards) ==
  /\ Cardinality(cards) >= 6
  /\ NoJokerIn(cards)
  /\ \A r \in RanksOf(cards) : Cardinality({c \in cards : RankOf(c) = r}) = 2
  /\ Consecutive(PlacesOf(cards))

\* C23: a selection of four or more cards is a bomb exactly when all cards
\* are ranked cards of one rank; otherwise a straight exactly when it has at
\* least five cards, no joker, and ranks that are consecutive without gap,
\* repeat or wrap-around; otherwise a triple-double exactly when it is an
\* even number, at least six, of cards that split into pairs of one rank
\* each with consecutive ranks; and is rejected otherwise.
C23_BombStraightTripleDouble ==
  (Classified /\ Cardinality(Selected) >= 4) =>
    HandType = IF BombShape(Selected) THEN "bomb"
               ELSE IF StraightShape(Selected) THEN "straight"
               ELSE IF TripleDoubleShape(Selected) THEN "triple-double"
               ELSE "null"

\* six cards in pairs of 3s, 4s and 5s have been classified
C23_Witness ==
  /\ Classified
  /\ HandType = "triple-double"
  /\ RanksOf(Selected) = {"3", "4", "5"}

(***************************************************************************)
(* Vocabulary of the deal properties.                                      *)
(***************************************************************************)
Dealt == dealing.step \in {"dealt", "started"}
\* the cards of numDecks decks: 52 ranked cards, a small and a big joker each
CardsOfDecks(numDecks) ==
  {CardId(d, suit, rank) : d \in 0..(numDecks - 1),
                           suit \in SeqToSet(SUIT_ORDER), rank \in SeqToSet(RANK_ORDER)}
    \cup {d * CardsPerDeck + 52 : d \in 0..(numDecks - 1)}
    \cup {d * CardsPerDeck + 53 : d \in 0..(numDecks - 1)}
ThreeOfSpades(c) == ~IsJoker(c) /\ RankOf(c) = "3" /\ SuitOf(c) = "spades"

\* C24: the deck built for P players is ceil(P/4) decks of 52 ranked cards
\* and two jokers with distinct ids, and dealing it drops and duplicates no
\* card: the hands are pairwise disjoint, their union is the deck, card i is
\* in the hand of player i mod P, and the hand sizes differ by at most one.
C24_DealPartitionsDeck ==
  Dealt =>
    LET P == dealing.numPlayers
        deck == dealing.deck
        hands == dealing.hands
        numDecks == IF P % 4 = 0 THEN P \div 4 ELSE (P \div 4) + 1
    IN /\ Len(deck) = 54 * numDecks
       /\ SeqToSet(deck) = CardsOfDecks(numDecks)
       /\ Cardinality(SeqToSet(deck)) = Len(deck)
       /\ DOMAIN hands = 1..P
       /\ \A i, j \in 1..P : i # j => hands[i] \cap hands[j] = {}
       /\ UNION {hands[i] : i \in 1..P} = SeqToSet(deck)
       /\ \A i \in 0..(Len(deck) - 1) : deck[i + 1] \in hands[(i % P) + 1]
       /\ \A i, j \in 1..P : Cardinality(hands[i]) - Cardinality(hands[j]) <= 1

\* two shuffled decks have been dealt to five players
C24_Witness ==
  /\ Dealt
  /\ dealing.numPlayers = 5
  /\ dealing.deck # WholeDeck(2)
  /\ Cardinality(dealing.hands[1]) = 22 /\ Cardinality(dealing.hands[5]) = 21

\* C25: at the start of a round (startGame and startNextRound) the player
\* to act holds a 3 of spades in the freshly dealt hand, and no player
\* seated before holds one.
C25_FirstHolderOfThreeOfSpadesActs ==
  (dealing.step = "started" /\ gameState.gameStatus = "playing") =>
    LET first == gameState.currentPlayerId
    IN /\ HasPlayer(gameState, first)
       /\ gameState.players[first].hand = dealing.hands[first]
       /\ \E c \in gameState.players[first].hand : ThreeOfSpades(c)
       /\ \A i \in Seats(gameState) :
            i < first => ~\E c \in gameState.players[i].hand : ThreeOfSpades(c)

\* a next round has started with a 3 of spades in the hands of two players
C25_Witness ==
  /\ dealing.step = "started"
  /\ lastOp.op = "startNextRound"
  /\ gameState.gameStatus = "playing"
  /\ Cardinality({i \in Seats(gameState) :
                    \E c \in gameState.players[i].hand : ThreeOfSpades(c)}) = 2

(***************************************************************************)
(* Vocabulary of the properties of the computer player: the player to act, *)
(* the hand on the table, and the candidates of the kind of that hand: a   *)
(* candidate is a card (single) or a rank of which the hand holds two      *)
(* (pair) or three (triple) ranked cards, with its place in the rank       *)
(* order.                                                                  *)
(***************************************************************************)
Actor == gameState.players[gameState.currentPlayerId]
Active == gameState.currentHand
AIPlays == lastOp'.op = "playHandForAI"
AIPasses == lastOp'.op \in {"handlePassForAI", "collectCards"}
PlayedHandOf(gs) == gs.currentHand
LowestOf(S) == CHOOSE x \in S : \A y \in S : x <= y
CountOfRank(hand, rank) == Cardinality({c \in hand : ~IsJoker(c) /\ RankOf(c) = rank})
KindSize(kind) == IF kind = "single" THEN 1 ELSE IF kind = "pair" THEN 2 ELSE 3

CandidatesOf(hand, kind) ==
  IF kind = "single" THEN {<<c, RankPlace(c)>> : c \in hand}
  ELSE {<<r, IndexOf(RANK_ORDER, r)>> :
          r \in {x \in RanksOf(hand) : CountOfRank(hand, x) >= KindSize(kind)}}

BeatingCandidates(hand, active) ==
  {cand \in CandidatesOf(hand, active.type) : cand[2] > HighestPlace(active)}

\* the place of the candidate the difficulty asks for: the highest (easy),
\* the one at index floor(n/2) of the n candidates in ascending order
\* (medium), the lowest (hard)
ChosenPlace(cands, difficulty) ==
  LET n == Cardinality(cands)
      places == {cand[2] : cand \in cands}
      below(v) == Cardinality({cand \in cands : cand[2] < v})
      upTo(v) == Cardinality({cand \in cands : cand[2] <= v})
  IN IF difficulty = "easy" THEN MaxOf(places)
     ELSE IF difficulty = "hard" THEN LowestOf(places)
     ELSE CHOOSE v \in places : below(v) <= n \div 2 /\ n \div 2 < upTo(v)

\* C26: with a single, pair or triple on the table and a candidate of that
\* kind that beats it, the candidate the computer player plays is of that
\* kind and is the highest beating candidate at easy, the one at index
\* floor(n/2) of the n beating candidates in ascending order at medium, and
\* the lowest at hard, singles included.
C26_CandidateByDifficulty ==
  [][(/\ Active.type \in {"single", "pair", "triple"}
      /\ BeatingCandidates(Actor.hand, Active) # {}
      /\ AIPlays)
     => /\ PlayedHandOf(gameState').type = Active.type
        /\ HighestPlace(PlayedHandOf(gameState'))
             = ChosenPlace(BeatingCandidates(Actor.hand, Active), gameState.aiDifficulty)]_vars

\* a J, Q, K, A, 2 or a joker
RankedAboveTen(c) == IsJoker(c) \/ RankOf(c) \in {"J", "Q", "K", "A", "2"}

\* C27: at hard, once a beating candidate has been chosen, the pass is a
\* possible outcome exactly when the candidate holds a card ranked above 10,
\* the hand on the table has at most 3 cards and the computer player holds
\* more than 5 cards; otherwise the candidate is played.
C27_HardPassOnlyToSaveHighCards ==
  (/\ AITurnEnabled(gameState)
   /\ gameState.aiDifficulty = "hard"
   /\ Active # NoHand
   /\ findBeatingHand(Actor, Active, "hard") # {})
  => LET candidate == findBeatingHand(Actor, Active, "hard")
         decisions == makeAIMove(Actor, Active, "hard")
     IN /\ [action |-> "play", cards |-> candidate] \in decisions
        /\ (AIPass \in decisions)
             <=> /\ \E c \in candidate : RankedAboveTen(c)
                 /\ Cardinality(Active.cards) <= 3
                 /\ Cardinality(Actor.hand) > 5

\* the kind the difficulty leads with: a triple at hard if the hand holds
\* one, else a pair at medium and hard if it holds one, else a single
LeadKind(hand, difficulty) ==
  IF difficulty = "hard" /\ CandidatesOf(hand, "triple") # {} THEN "triple"
  ELSE IF difficulty \in {"medium", "hard"} /\ CandidatesOf(hand, "pair") # {} THEN "pair"
  ELSE "single"

\* C28: with no hand on the table the computer player always plays and
\* never passes: its lowest single at easy; its lowest pair, else its lowest
\* single, at medium; its lowest triple, else its lowest pair, else its
\* lowest single, at hard.
C28_LeadsLowestOfPreferredKind ==
  /\ []((AITurnEnabled(gameState) /\ Active = NoHand) =>
          \A d \in makeAIMove(Actor, Active, gameState.aiDifficulty) :
            d.action = "play" /\ validateHand(d.cards) # "null")
  /\ [][Active = NoHand =>
          LET kind == LeadKind(Actor.hand, gameState.aiDifficulty)
              played == PlayedHandOf(gameState')
          IN /\ AIPlays
             /\ played.playerId = Actor.id
             /\ played.cards \subseteq Actor.hand
             /\ played.type = kind
             /\ Cardinality(played.cards) = KindSize(kind)
             /\ HighestPlace(played)
                  = LowestOf({cand[2] : cand \in CandidatesOf(Actor.hand, kind)})]_vars

\* at hard the computer player in seat 2 has led its triple of 4s while
\* holding a pair of 5s
C28_Witness ==
  /\ lastOp = [op |-> "playHandForAI", by |-> 2]
  /\ gameState.aiDifficulty = "hard"
  /\ gameState.currentHand.type = "triple"
  /\ Len(gameState.playedCards) = 3
  /\ CountOfRank(gameState.players[2].hand, "5") = 2

\* the hand holds a bomb that beats the hand on the table: four or more
\* ranked cards of one rank, against a bomb more cards or as many of a
\* higher rank
HoldsBeatingBomb(hand, active) ==
  \E r \in RanksOf(hand) :
    /\ CountOfRank(hand, r) >= 4
    /\ \/ active.type # "bomb"
       \/ CountOfRank(hand, r) > HandLength(active)
       \/ IndexOf(RANK_ORDER, r) > BombRank(active)

\* the hand holds a 5, a 10 and a K that beat the hand on the table
HoldsBeatingWushik(hand, active) ==
  \E f, t, k \in hand :
    /\ ~IsJoker(f) /\ ~IsJoker(t) /\ ~IsJoker(k)
    /\ RankOf(f) = "5" /\ RankOf(t) = "10" /\ RankOf(k) = "K"
    /\ LET wushik == [cards |-> {f, t, k}]
       IN \/ active.type \notin {"bomb", "wushik"}
          \/ /\ active.type = "wushik"
             /\ SingleSuited(wushik)
             /\ ~SingleSuited(active) \/ SuitPlace(wushik) > SuitPlace(active)

\* C29: at easy, with a hand on the table, the computer player passes only
\* if nothing qualifies: no single, pair or triple of the kind on the table
\* beats it, and the hand holds no bomb and no wushik (any 5, 10 and K it
\* holds) that beats it.
C29_EasyPassesOnlyWithNothingToPlay ==
  [][(gameState.aiDifficulty = "easy" /\ Active # NoHand /\ AIPasses)
     => /\ ~(Active.type \in {"single", "pair", "triple"}
               /\ BeatingCandidates(Actor.hand, Active) # {})
        /\ ~HoldsBeatingBomb(Actor.hand, Active)
        /\ ~HoldsBeatingWushik(Actor.hand, Active)]_vars

\* C30: a write computed from a snapshot that is no longer the stored
\* document is rejected rather than applied: the stored document, which is
\* newer than the snapshot, stays as it is.
C30_StaleWriteRejected ==
  [][(pc = "endRound" /\ closure # gameState) => gameState' = gameState]_vars

(***************************************************************************)
(* The reveal.                                                             *)
(***************************************************************************)
Revealed == gameState.gameStatus = "round-reveal"
PlaceHolders(gs, place) == {i \in Seats(gs) : gs.players[i].finishPosition = place}

\* C32: in every round-reveal state two distinct players hold the finish
\* positions 1 and 2, both are other players than the recorded last player
\* (who is a player of the game), and continueFromReveal writes a document
C32_RevealHasFirstAndSecond ==
  Revealed =>
    /\ HasPlayer(gameState, gameState.lastPlayerId)
    /\ \E i \in PlaceHolders(gameState, 1), j \in PlaceHolders(gameState, 2) :
         /\ i # j
         /\ gameState.players[i].id # gameState.lastPlayerId
         /\ gameState.players[j].id # gameState.lastPlayerId
    /\ continueFromReveal(gameState) # <<>>

\* a reveal of a game of three players written by endRound
C32_Witness ==
  /\ Revealed
  /\ lastOp.op = "endRound"
  /\ Len(gameState.players) = 3
  /\ PlaceHolders(gameState, 1) # {}
  /\ PlaceHolders(gameState, 2) # {}
  /\ gameState.players[gameState.lastPlayerId].hand # {}


(***************************************************************************)
(* The finished collector.                                                 *)
(***************************************************************************)
\* the player to act has finished: the trick went to a hand whose owner had
\* played the last card
CollectorFinished(gs) ==
  /\ gs.gameStatus = "playing"
  /\ HasPlayer(gs, gs.currentPlayerId)
  /\ gs.players[gs.currentPlayerId].hasFinished

\* C33: a player who has finished neither plays nor passes again in the
\* round, and when the collector of a trick has finished the lead moves to
\* the nearest player after the collector in seating order (wrapping) who has
\* not finished
C33_LeadPassesFinishedCollector ==
  [][/\ (lastOp'.op \in PlayOps \cup PassOps /\ HasPlayer(gameState, lastOp'.by))
          => ~gameState.players[lastOp'.by].hasFinished
     /\ (CollectorFinished(gameState) /\ lastOp'.op = "autoSkip")
          => gameState'.currentPlayerId
               = NextUnfinishedAfter(gameState, gameState.currentPlayerId)]_vars


(***************************************************************************)
(* The trick in progress.                                                  *)
(***************************************************************************)
TrickOpen == gameState.gameStatus = "playing" /\ gameState.currentHand # NoHand
Passed == {gameState.passedPlayerIds[k] : k \in DOMAIN gameState.passedPlayerIds}
OthersToPass ==
  {gameState.players[i].id : i \in Unfinished(gameState)} \ {gameState.currentHand.playerId}

\* C34: in every playing state with an active hand the player to act is not
\* the owner of the active hand, the passed list names no player twice, does
\* not name the owner and names only players who have not finished; so the
\* count test of the end of the trick holds for a pass of the player to act
\* exactly when the passed players are then all the other unfinished players
C34_PassedSetWellFormed ==
  TrickOpen =>
    /\ gameState.currentPlayerId # gameState.currentHand.playerId
    /\ Cardinality(Passed) = Len(gameState.passedPlayerIds)
    /\ gameState.currentHand.playerId \notin Passed
    /\ \A id \in Passed : HasPlayer(gameState, id) /\ ~gameState.players[id].hasFinished
    /\ allOthersPassedOrFinished(gameState, Append(gameState.passedPlayerIds,
                                                    gameState.currentPlayerId))
         <=> Passed \cup {gameState.currentPlayerId} = OthersToPass


(***************************************************************************)
(* The cards of a round.                                                   *)
(***************************************************************************)
InRound == gameState.gameStatus \in {"playing", "round-reveal"}
Pool == SeqToSet(gameState.playedCards)
HandOf(i) == gameState.players[i].hand
RoundDeck == CardsInPlay(NumDecks(Len(gameState.players)))

\* C35: during a round no card id is in the hands of two players, none is
\* both in a hand and in the pool of the trick, none is twice in the pool,
\* and every card of a hand or of the pool is a card of the deck of the round
C35_CardsAreDistinct ==
  InRound =>
    /\ \A i, j \in Seats(gameState) : i # j => HandOf(i) \cap HandOf(j) = {}
    /\ \A i \in Seats(gameState) : HandOf(i) \cap Pool = {}
    /\ Cardinality(Pool) = Len(gameState.playedCards)
    /\ \A i \in Seats(gameState) : HandOf(i) \subseteq RoundDeck
    /\ Pool \subseteq RoundDeck

\* a trick with cards of two players in the pool while two players hold cards
C35_Witness ==
  /\ gameState.gameStatus = "playing"
  /\ lastOp.op \in PlayOps
  /\ Len(gameState.playedCards) >= 3
  /\ Cardinality(PlayersWithCards(gameState.players)) >= 2
  /\ Seats(gameState) \ PlayersWithCards(gameState.players) # {}


(***************************************************************************)
(* The points of a round.                                                  *)
(***************************************************************************)
RECURSIVE Total(_, _)
Total(players, field) ==
  IF players = <<>> THEN 0 ELSE Head(players)[field] + Total(Tail(players), field)

RECURSIVE HandsValue(_)
HandsValue(players) ==
  IF players = <<>> THEN 0 ELSE HandValue(Head(players).hand) + HandsValue(Tail(players))

\* the points the players hold: collected in the round or still in a hand
PointsHeld(gs) == Total(gs.players, "tempPoints") + HandsValue(gs.players)
\* the points of the round: held by the players or lying in the pool
PointsOfRound(gs) == PointsHeld(gs) + PoolValue(gs.playedCards)
DealOps == {"startGame", "startNextRound"}
\* the cards of a deck carry 100 points: 4 x (5 + 10 + 10)
DeckWorth100 ==
  \A numDecks \in 1..NumDecks(MaxPlayers + 1) :
    HandValue(CardsOfDecks(numDecks)) = 100 * numDecks

\* C36: a deck is worth 100 points; a deal puts the points of the dealt deck
\* into the round; while the round is played every step keeps the points of
\* the round, in hands, collected or in the pool; the reveal keeps what the
\* players hold and nothing of the pool of the round-ending play;
\* continueFromReveal raises the sum of totalPoints by what the players hold
\* at the reveal, that is by the points of the deck less the points of the
\* final pool; and no other step changes a totalPoints
C36_RoundPointsAccounting ==
  /\ []DeckWorth100
  /\ [][/\ (lastOp'.op \in DealOps /\ gameState'.gameStatus = "playing")
             => /\ PointsOfRound(gameState')
                     = HandValue(CardsInPlay(NumDecks(Len(gameState'.players))))
                /\ PointsHeld(gameState') = HandsValue(gameState'.players)
        /\ (gameState.gameStatus = "playing" /\ lastOp'.op # "endRound")
             => PointsOfRound(gameState') = PointsOfRound(gameState)
        /\ lastOp'.op = "endRound"
             => /\ gameState'.gameStatus = "round-reveal"
                /\ PointsHeld(gameState') = PointsHeld(gameState)
                /\ PointsHeld(gameState')
                     = PointsOfRound(gameState) - PoolValue(gameState.playedCards)
        /\ lastOp'.op = "continueFromReveal"
             => /\ Total(gameState'.players, "totalPoints")
                     - Total(gameState.players, "totalPoints") = PointsHeld(gameState)
                /\ PointsHeld(gameState) <= 100 * NumDecks(Len(gameState.players))
        /\ lastOp'.op # "continueFromReveal"
             => Total(gameState'.players, "totalPoints")
                  = Total(gameState.players, "totalPoints")]_vars

\* the first round was settled and points of the deck were left in the final
\* pool: the players scored less than the deck is worth
C36_Witness ==
  /\ lastOp.op = "continueFromReveal"
  /\ gameState.roundNumber = 1
  /\ Len(gameState.players) = 3
  /\ Total(gameState.players, "totalPoints") > 0
  /\ Total(gameState.players, "totalPoints") < HandValue(CardsInPlay(1))


(***************************************************************************)
(* The moves of the computer player.                                       *)
(***************************************************************************)
\* a decision of the computer player is a legal move of the actor
LegalMove(decision) ==
  IF decision.action = "play"
  THEN /\ decision.cards # {}
       /\ decision.cards \subseteq Actor.hand
       /\ validateHand(decision.cards) # "null"
       /\ Active # NoHand
            => canBeatHand([cards |-> decision.cards, type |-> validateHand(decision.cards),
                            playerId |-> Actor.id], Active)
  ELSE Active # NoHand

\* C37: at every difficulty every move makeAIMove can return for a computer
\* player who holds cards is legal: a play is a non-empty selection of cards
\* of the hand that classifies as a kind and beats the hand on the table when
\* there is one, and a pass is returned only when a hand is on the table
C37_AIMoveIsLegal ==
  (AITurnEnabled(gameState) /\ Actor.hand # {})
    => \A decision \in makeAIMove(Actor, Active, gameState.aiDifficulty) :
         LegalMove(decision)

\* the computer player has beaten a triple with a wushik of its hand
C37_Witness ==
  /\ lastOp = [op |-> "playHandForAI", by |-> 2]
  /\ gameState.currentHand.type = "wushik"
  /\ gameState.currentHand.playerId = 2
  /\ Len(gameState.playedCards) = 6
  /\ gameState.players[2].hand # {}


(***************************************************************************)
(* The order of the hands.                                                 *)
(***************************************************************************)
\* two hands of one kind and size whose deciding rank or suit is the same
Tied(a, b) ==
  /\ a.type = b.type
  /\ HandLength(a) = HandLength(b)
  /\ IF a.type = "bomb" THEN BombRank(a) = BombRank(b)
     ELSE IF a.type = "wushik"
          THEN \/ ~SingleSuited(a) /\ ~SingleSuited(b)
               \/ SingleSuited(a) /\ SingleSuited(b) /\ SuitPlace(a) = SuitPlace(b)
     ELSE HighestPlace(a) = HighestPlace(b)

\* C40: canBeatHand is a strict partial order on the classified hands: no
\* hand beats itself, no hand beats a hand of the same kind, size and
\* deciding rank or suit, and when the new hand beats the current hand it
\* beats every hand the current hand beats
C40_StrictPartialOrder ==
  Compared =>
    /\ ~canBeatHand(NewHand, NewHand)
    /\ Tied(NewHand, CurrentHand) => ~Beats
    /\ Beats => \A third \in ClassifiedHands :
                  canBeatHand(CurrentHand, PlayedHand(third, 3))
                    => canBeatHand(NewHand, PlayedHand(third, 3))

\* a bomb has beaten a wushik, which beats every regular hand
C40_Witness ==
  /\ Beats
  /\ NewHand.type = "bomb"
  /\ CurrentHand.type = "wushik"
  /\ SingleSuited(CurrentHand)


(***************************************************************************)
(* The end of the round.                                                   *)
(***************************************************************************)
Playing == gameState.gameStatus = "playing"
CardsHeld(gs) == Cardinality(UNION {gs.players[i].hand : i \in Seats(gs)})

\* the player to act has a move that a handler accepts: a play, a pass, the
\* move of the computer player or the skip of a finished player
CanAct(gs) ==
  LET actor == gs.currentPlayerId
  IN /\ HasPlayer(gs, actor)
     /\ \/ AutoSkipEnabled(gs) /\ autoSkip(gs) # <<>>
        \/ /\ AITurnEnabled(gs)
           /\ \E aiDecision \in makeAIMove(gs.players[actor], gs.currentHand, gs.aiDifficulty) :
                aiTurn(gs, aiDecision) # <<>>
        \/ /\ ~gs.players[actor].isAI
           /\ \/ clickPass(gs, actor) # <<>>
              \/ \E selectedCards \in SUBSET gs.players[actor].hand :
                   handlePlay(gs, actor, selectedCards) # <<>>

C31_OneWriterPerTurn ==
  [][clients'.lastMove.base = clients.lastMove.base
       => clients'.lastMove.client = clients.lastMove.client]_vars



(***************************************************************************)
(* C39: the redistribution of a round is applied once, however often and   *)
(* by whichever clients continueFromReveal is invoked: the document it has *)
(* written carries, for every player, the total of the start of the round  *)
(* (0 in the round the clients play) plus that player's share of the       *)
(* reveal the invocation read, and a settled document is one it has        *)
(* written.                                                                *)
(***************************************************************************)
Settled == gameState.gameStatus \in {"round-end", "game-end"}

\* what the reveal gives player i: nothing to the last player, to the others
\* their round points, and the last player's round points or hand to the
\* first or second place
Share(reveal, i) ==
  LET last == reveal.lastPlayerId
      P == reveal.players
  IN IF i = last THEN 0
     ELSE P[i].tempPoints
          + (IF P[i].finishPosition = 1 THEN P[last].tempPoints ELSE 0)
          + (IF P[i].finishPosition = 2 THEN HandValue(P[last].hand) ELSE 0)

C39_RedistributionAppliedOnce ==
  (Settled \/ lastOp.op = "continueFromReveal") =>
    LET reveal == clients.lastContinue.base
    IN /\ lastOp.op = "continueFromReveal"
       /\ reveal.gameStatus = "round-reveal"
       /\ Seats(gameState) = Seats(reveal)
       /\ \A i \in Seats(gameState) :
            gameState.players[i].totalPoints = Share(reveal, i)

\* both clients have clicked Continue on the same reveal, and the round gave
\* points to a player
C39_Witness ==
  /\ Settled
  /\ lastOp.op = "continueFromReveal"
  /\ clients.lastContinue.repeated
  /\ clients.lastContinue.by = {1, 2}
  /\ \E i \in Seats(gameState) : gameState.players[i].totalPoints > 0

====
